---------------------------- MODULE Spec2Model ----------------------------
(***************************************************************************)
(* The combat core of the duelist game: the fighter (Player), the bot      *)
(* (Bot), and the Game's frame step with its collision resolver.           *)
(*                                                                         *)
(* The repository holds the core twice: the modular version (player.py,    *)
(* game_state.py) and the monolithic version (duelist_game.py, the one     *)
(* main.py starts).  The variable impl says which of the two a behaviour   *)
(* runs; every operator that differs between them takes it as a parameter. *)
(*                                                                         *)
(* Units.  Python keeps x as a float that only ever holds multiples of     *)
(* 0.5 (every speed is a multiple of 0.5, every start position an int), so *)
(* the model keeps x in HALF pixels.  The hand positions are computed in   *)
(* 1/30 pixel, the common denominator of the arm animation, and truncated  *)
(* to whole pixels where pygame.Rect truncates them.  Probabilities are in *)
(* hundredths.                                                             *)
(*                                                                         *)
(* Not modelled: animation_state, body_parts, colours, hit effects and     *)
(* match_stats (drawing and statistics only; nothing reads them back).     *)
(***************************************************************************)
EXTENDS Integers, Sequences, FiniteSets, TLC

VARIABLES
    impl,             \* "modular" (player.py + game_state.py) or "monolithic" (duelist_game.py)
    state,            \* Game.state (a GameState value); "api" while a fighter is driven directly
    player1,          \* Game.player1
    player2,          \* Game.player2 (None outside player_vs_player)
    bot,              \* Game.bot (None outside player_vs_bot)
    battle_finished,  \* Game.battle_finished
    winner,           \* Game.winner
    round_time,       \* Game.round_time
    crashed,          \* an exception left the frame loop: the process has ended
    held,             \* the movement keys currently held down (pygame.key.get_pressed)
    keys_used,        \* number of key-down events handled so far in this match
    events,           \* what the two halves of the last check_collisions call did
    swing,            \* per fighter: bookkeeping of its current swing (since its last successful attack())
    since_attack,     \* update() calls since the fighter's last successful attack(), counted up to ATTACK_COOLDOWN
    last_call,        \* the last direct call of the fighter API (None in a match)
    hits_landed,      \* number of hits player1 has landed in this match
    menu              \* Game.menu_selection, player1_selection, player2_selection, selected_body_type_p1/_p2

vars == <<impl, state, player1, player2, bot, battle_finished, winner, round_time,
          crashed, held, keys_used, events, swing, since_attack, last_call, hits_landed, menu>>

-----------------------------------------------------------------------------
(* Bounds of the model *)

\* frames explored per match in Spec
MaxTicks == 16
\* key-down events explored per match in Spec
MaxKeys == 1
\* largest damage / heal amount, in units of AmountStep, handed to take_damage and heal in SpecHealth
MaxAmount == 4
\* direct make_decision calls made on one bot in SpecCooldown and SpecDecide
MaxCalls == 27
\* ticks of one bot (Bot.update, then make_decision) in SpecBotTick
MaxBotTicks == 6
\* frames explored while one fighter walks through the other in SpecSides
MaxSideTicks == 12
\* direct calls made on one fighter in SpecFacing
MaxFacingCalls == 4
\* the count of consecutive ticks without a decision stops here in SpecPatience
MaxWaited == 40
\* frames explored per match in SpecMenu
MaxMenuTicks == 1
\* largest index into list(BodyType) a character selection is moved to in SpecMenu
MaxSelection == 1
\* calls made on the two Players side by side in SpecTwins
MaxTwinCalls == 4

-----------------------------------------------------------------------------
(* Program constants *)

None == "None"

\* a fighter slot of the Game that holds None (a record, so that it compares with a fighter)
NoFighter == [exists |-> FALSE]

\* list(BodyType), in the order of the enumeration
body_types == <<"athletic", "lean", "heavy", "sumo", "ninja", "robotic">>

\* the selections of a new Game (Game.__init__)
NewMenu == [menu_selection |-> 0, player1_selection |-> 0, player2_selection |-> 0,
            selected_body_type_p1 |-> "athletic", selected_body_type_p2 |-> "athletic"]

\* Settings.screen_width / screen_height defaults
screen_width == 1024
screen_height == 768
\* Game.init_screen: ground_y = screen_height - 120
ground_y == screen_height - 120

\* Player.attack / Player.block
ATTACK_ANIMATION == 15
ATTACK_COOLDOWN == 30
BLOCK_COOLDOWN == 40

\* the damage the monolithic resolver passes to take_damage
MONOLITHIC_DAMAGE == 10

Impls == {"modular", "monolithic"}
BodyTypes == {"athletic", "lean", "heavy", "sumo", "ninja", "robotic"}

\* BodyTypeParameters.PARAMETERS (modular) and Player.set_body_parameters (monolithic):
\* the two tables agree on every field they share; damage exists in the modular one only.
\* speed2 is the speed in half pixels per frame.
PARAMETERS ==
    [bt \in BodyTypes |->
        CASE bt = "athletic" -> [width |-> 52, height |-> 130, speed2 |-> 11, health |-> 100,
                                 max_health |-> 100, head_radius |-> 18, shoulder_width |-> 45,
                                 arm_length |-> 55, damage |-> 10]
          [] bt = "lean"     -> [width |-> 42, height |-> 140, speed2 |-> 12, health |-> 90,
                                 max_health |-> 90, head_radius |-> 16, shoulder_width |-> 35,
                                 arm_length |-> 60, damage |-> 9]
          [] bt = "heavy"    -> [width |-> 65, height |-> 125, speed2 |-> 9, health |-> 120,
                                 max_health |-> 120, head_radius |-> 22, shoulder_width |-> 55,
                                 arm_length |-> 50, damage |-> 12]
          [] bt = "sumo"     -> [width |-> 75, height |-> 115, speed2 |-> 7, health |-> 150,
                                 max_health |-> 150, head_radius |-> 25, shoulder_width |-> 60,
                                 arm_length |-> 45, damage |-> 15]
          [] bt = "ninja"    -> [width |-> 45, height |-> 135, speed2 |-> 13, health |-> 85,
                                 max_health |-> 85, head_radius |-> 17, shoulder_width |-> 38,
                                 arm_length |-> 65, damage |-> 8]
          [] bt = "robotic"  -> [width |-> 58, height |-> 145, speed2 |-> 10, health |-> 110,
                                 max_health |-> 110, head_radius |-> 20, shoulder_width |-> 50,
                                 arm_length |-> 58, damage |-> 11]]

Params(f) == PARAMETERS[f.body_type]

-----------------------------------------------------------------------------
(* Arithmetic helpers *)

Max(a, b) == IF a >= b THEN a ELSE b
Min(a, b) == IF a <= b THEN a ELSE b
Abs(a) == IF a >= 0 THEN a ELSE -a

\* int(n / d) as pygame.Rect converts a float coordinate: truncation towards zero
Trunc(n, d) == IF n >= 0 THEN n \div d ELSE -((-n) \div d)

-----------------------------------------------------------------------------
(* Player *)

\* Player.__init__: the fighter as constructed (x in half pixels)
NewPlayer(x2, bt) ==
    [body_type |-> bt,
     x |-> x2,
     moving_left |-> FALSE,
     moving_right |-> FALSE,
     attacking |-> FALSE,
     blocking |-> FALSE,
     block_direction |-> "left",
     attack_cooldown |-> 0,
     block_cooldown |-> 0,
     attack_animation |-> 0,
     already_hit_in_current_attack |-> FALSE,
     attacking_with_right |-> TRUE,
     health |-> PARAMETERS[bt].health,
     max_health |-> PARAMETERS[bt].max_health]

\* x + width // 2 in half pixels: the horizontal centre the hand and side tests compare with
CenterX2(f) == f.x + 2 * (Params(f).width \div 2)

\* a faulty variant of determine_attack_hand that leaves the block direction of a blocking fighter alone
DetermineHandKeepingBlock(f, opponent_x) ==
    LET right == ~(opponent_x < CenterX2(f))
    IN  IF f.blocking THEN [f EXCEPT !.attacking_with_right = right]
        ELSE [f EXCEPT !.attacking_with_right = right,
                       !.block_direction = IF right THEN "left" ELSE "right"]

\* Player.determine_attack_hand
determine_attack_hand(f, opponent_x) ==
    LET right == ~(opponent_x < CenterX2(f))
    IN  [f EXCEPT !.attacking_with_right = right,
                  !.block_direction = IF right THEN "left" ELSE "right"]

\* Player.move_left
move_left(f) == [f EXCEPT !.moving_left = TRUE, !.moving_right = FALSE]

\* a faulty variant of move_right that forgets to clear moving_left
MoveRightKeepingLeft(f) == [f EXCEPT !.moving_right = TRUE]

\* Player.move_right
move_right(f) == [f EXCEPT !.moving_right = TRUE, !.moving_left = FALSE]

\* Player.stop_moving
stop_moving(f) == [f EXCEPT !.moving_left = FALSE, !.moving_right = FALSE]

\* a faulty variant of attack without the cooldown guard
AttackWithoutCooldown(f, opponent_x) ==
    [determine_attack_hand(f, opponent_x) EXCEPT
        !.attacking = TRUE,
        !.attack_animation = ATTACK_ANIMATION,
        !.attack_cooldown = ATTACK_COOLDOWN,
        !.already_hit_in_current_attack = FALSE]

\* Player.attack
attack(f, opponent_x) ==
    IF f.attack_cooldown <= 0
    THEN [determine_attack_hand(f, opponent_x) EXCEPT
            !.attacking = TRUE,
            !.attack_animation = ATTACK_ANIMATION,
            !.attack_cooldown = ATTACK_COOLDOWN,
            !.already_hit_in_current_attack = FALSE]
    ELSE f

\* a faulty variant of block without the cooldown guard
BlockRestarting(f, opponent_x) ==
    [f EXCEPT
        !.block_direction = IF opponent_x < CenterX2(f) THEN "left" ELSE "right",
        !.blocking = TRUE,
        !.block_cooldown = BLOCK_COOLDOWN]

\* Player.block
block(f, opponent_x) ==
    IF f.block_cooldown <= 0
    THEN [f EXCEPT
            !.block_direction = IF opponent_x < CenterX2(f) THEN "left" ELSE "right",
            !.blocking = TRUE,
            !.block_cooldown = BLOCK_COOLDOWN]
    ELSE f

\* Player.update, movement part: each direction is guarded by the arena edge, then a full step is taken
UpdateMove(f, sw) ==
    LET x1 == IF f.moving_left /\ f.x > 0 THEN f.x - Params(f).speed2 ELSE f.x
        x2 == IF f.moving_right /\ x1 < 2 * (sw - Params(f).width)
              THEN x1 + Params(f).speed2 ELSE x1
    IN  [f EXCEPT !.x = x2]

\* a faulty variant of the attack animation part in which a block holds the swing up
UpdateAttackHeldUpByBlock(f) ==
    IF f.attacking /\ f.attack_animation > 0 /\ ~f.blocking
    THEN LET a == f.attack_animation - 1
         IN  IF a <= 0
             THEN [f EXCEPT !.attack_animation = a, !.attacking = FALSE,
                            !.already_hit_in_current_attack = FALSE]
             ELSE [f EXCEPT !.attack_animation = a]
    ELSE f

\* a faulty variant of the attack animation part that ends the swing without clearing its hit mark
UpdateAttackKeepingHitMark(f) ==
    IF f.attacking /\ f.attack_animation > 0
    THEN LET a == f.attack_animation - 1
         IN  IF a <= 0
             THEN [f EXCEPT !.attack_animation = a, !.attacking = FALSE]
             ELSE [f EXCEPT !.attack_animation = a]
    ELSE f

\* Player.update, attack animation part
UpdateAttack(f) ==
    IF f.attacking /\ f.attack_animation > 0
    THEN LET a == f.attack_animation - 1
         IN  IF a <= 0
             THEN [f EXCEPT !.attack_animation = a, !.attacking = FALSE,
                            !.already_hit_in_current_attack = FALSE]
             ELSE [f EXCEPT !.attack_animation = a]
    ELSE f

\* Player.update, cooldown part
UpdateCooldowns(f) ==
    LET g == IF f.attack_cooldown > 0
             THEN [f EXCEPT !.attack_cooldown = f.attack_cooldown - 1] ELSE f
    IN  IF g.block_cooldown > 0
        THEN LET c == g.block_cooldown - 1
             IN  IF c <= 0 THEN [g EXCEPT !.block_cooldown = c, !.blocking = FALSE]
                           ELSE [g EXCEPT !.block_cooldown = c]
        ELSE g

\* a faulty variant of the block direction part that faces away from the opponent
UpdateBlockDirectionReversed(f, opp) ==
    IF opp # <<>> /\ f.blocking
    THEN [f EXCEPT !.block_direction = IF opp[1] < CenterX2(f) THEN "right" ELSE "left"]
    ELSE f

\* Player.update, block direction part; opp is <<>> for opponent_x = None, <<x>> otherwise
UpdateBlockDirection(f, opp) ==
    IF opp # <<>> /\ f.blocking
    THEN [f EXCEPT !.block_direction = IF opp[1] < CenterX2(f) THEN "left" ELSE "right"]
    ELSE f

\* a faulty variant of update that chooses the block direction from the x of before the movement
UpdateFacingBeforeMoving(f, sw, opp) ==
    LET g == UpdateCooldowns(UpdateAttack(UpdateMove(f, sw)))
    IN  [g EXCEPT !.block_direction = UpdateBlockDirection([g EXCEPT !.x = f.x], opp).block_direction]

\* Player.update(ground_y, screen_width, opponent_x)
update(f, sw, opp) ==
    UpdateBlockDirection(UpdateCooldowns(UpdateAttack(UpdateMove(f, sw))), opp)

\* a faulty variant of take_damage that hurts a blocking fighter too
TakeDamageThroughBlock(f, damage) == [f EXCEPT !.health = Max(0, f.health - damage)]

\* a faulty variant of take_damage without the floor at 0
TakeDamageUnfloored(f, damage) ==
    IF ~f.blocking THEN [f EXCEPT !.health = f.health - damage] ELSE f

\* Player.take_damage: the fighter afterwards
take_damage(f, damage) ==
    IF ~f.blocking THEN [f EXCEPT !.health = Max(0, f.health - damage)] ELSE f

\* Player.heal (modular only)
heal(f, amount) == [f EXCEPT !.health = Min(f.max_health, f.health + amount)]

-----------------------------------------------------------------------------
(* Geometry: the rectangles the resolver intersects *)

\* Player.update sets y = ground_y - height before the body parts are rebuilt
Y(f) == ground_y - Params(f).height

\* Player.update_body_parts, the arm_positions it leaves: current_x / current_y of the
\* two lower arms, in 1/30 pixel.  The pose is rebuilt by update() only, so it shows the
\* fighter as update() left it, also when attack() is called later in the same frame.
update_body_parts(f) ==
    LET center   == 15 * CenterX2(f)
        half_sw  == 30 * (Params(f).shoulder_width \div 2)
        left_sh  == center - half_sw + 150
        right_sh == center + half_sw - 150
        sh_y     == 30 * (Y(f) + 5)
        \* attack_strength * 15: 1 - |attack_animation/15 - 0.5| * 2, zero when not attacking
        k        == 15 - Abs(2 * (IF f.attacking THEN f.attack_animation ELSE 0) - 15)
        rest_y   == sh_y + 18 * Params(f).arm_length
    IN  IF f.attacking
        THEN IF f.attacking_with_right
             THEN [right_x |-> right_sh + 70 * k, right_y |-> sh_y - 28 * k,
                   left_x  |-> left_sh - 600,     left_y  |-> sh_y + 900]
             ELSE [left_x  |-> left_sh - 70 * k,  left_y  |-> sh_y - 28 * k,
                   right_x |-> right_sh + 600,    right_y |-> sh_y + 900]
        ELSE [left_x |-> left_sh, left_y |-> rest_y, right_x |-> right_sh, right_y |-> rest_y]

\* pygame.Rect(left, top, width, height) in whole pixels
Rect(l, t, w, h) == [left |-> l, top |-> t, width |-> w, height |-> h]

\* Player.get_rect: the body box, head included
get_rect(f) ==
    Rect(Trunc(f.x, 2), Y(f) - Params(f).head_radius * 2,
         Params(f).width, Params(f).height + Params(f).head_radius * 2)

\* Player.get_attack_rect: 30x30 around the tip of the attacking hand, empty when not attacking
get_attack_rect(f, pose) ==
    IF ~f.attacking THEN Rect(0, 0, 0, 0)
    ELSE LET hand_x == IF f.attacking_with_right THEN pose.right_x ELSE pose.left_x
             hand_y == (IF f.attacking_with_right THEN pose.right_y ELSE pose.left_y)
                       + 12 * Params(f).arm_length
         IN  Rect(Trunc(hand_x - 450, 30), Trunc(hand_y - 450, 30), 30, 30)

\* pygame.Rect.colliderect: a proper overlap; an empty rectangle meets nothing
colliderect(a, b) ==
    /\ a.width > 0 /\ a.height > 0 /\ b.width > 0 /\ b.height > 0
    /\ a.left < b.left + b.width /\ b.left < a.left + a.width
    /\ a.top < b.top + b.height /\ b.top < a.top + a.height

-----------------------------------------------------------------------------
(* The resolver *)

\* a faulty variant of check_block that also accepts an attacker standing at the defender's x
CheckBlockAtEqualX(defender, attacker) ==
    IF ~defender.blocking THEN FALSE
    ELSE IF attacker.attacking_with_right
         THEN defender.block_direction = "right" /\ attacker.x <= defender.x
         ELSE defender.block_direction = "left" /\ attacker.x >= defender.x

\* Game.check_block (modular); the same test is written inline in the monolithic check_collisions
check_block(defender, attacker) ==
    IF ~defender.blocking THEN FALSE
    ELSE IF attacker.attacking_with_right
         THEN defender.block_direction = "right" /\ attacker.x < defender.x
         ELSE defender.block_direction = "left" /\ attacker.x > defender.x

\* the damage the resolver hands to take_damage: the modular call passes nothing, so
\* take_damage falls back on the DEFENDER's own params.damage; the monolithic call passes 10
ResolverDamage(defender, im) ==
    IF im = "modular" THEN Params(defender).damage ELSE MONOLITHIC_DAMAGE

\* whether the fighter object has the attributes width / height the resolver reads when it
\* places the hit effect: the monolithic Player sets them, the modular Player keeps them in params only
HasWidthAttribute(im) == im = "monolithic"

\* a faulty variant of MarkHit that leaves the swing unmarked
LeaveUnmarked(attacker) == attacker

\* attacker.already_hit_in_current_attack = True
MarkHit(attacker) == [attacker EXCEPT !.already_hit_in_current_attack = TRUE]

\* what one half of check_collisions did: nothing ("skip"), a successful block ("blocked"),
\* damage dealt ("hit"), or take_damage refusing the damage of a strike that passed the
\* side test ("negated"); wrong_side: the defender was blocking and the side test failed
NoEvent == [kind |-> "skip", wrong_side |-> FALSE, health_before |-> 0, health_after |-> 0, damage |-> 0]

\* One half of Game.check_collisions: attacker's swing against defender.
\* raised: the AttributeError of reading defender.width, which ends the call where it stands.
Strike(attacker, defender, pose, im) ==
    IF ~(/\ attacker.attacking
         /\ ~attacker.already_hit_in_current_attack
         /\ colliderect(get_attack_rect(attacker, pose), get_rect(defender)))
    THEN [attacker |-> attacker, defender |-> defender, raised |-> FALSE, event |-> NoEvent]
    ELSE IF check_block(defender, attacker)
    THEN [attacker |-> MarkHit(attacker),
          defender |-> defender,
          raised   |-> ~HasWidthAttribute(im),
          event    |-> [kind |-> "blocked", wrong_side |-> FALSE,
                        health_before |-> defender.health, health_after |-> defender.health,
                        damage |-> ResolverDamage(defender, im)]]
    ELSE LET damage_dealt == ~defender.blocking  \* the return value of take_damage
             hurt == take_damage(defender, ResolverDamage(defender, im))
             ev == [kind |-> IF damage_dealt THEN "hit" ELSE "negated",
                    wrong_side |-> defender.blocking,
                    health_before |-> defender.health, health_after |-> hurt.health,
                    damage |-> ResolverDamage(defender, im)]
         IN  IF damage_dealt
             THEN IF HasWidthAttribute(im)
                  THEN [attacker |-> MarkHit(attacker),
                        defender |-> hurt, raised |-> FALSE, event |-> ev]
                  ELSE [attacker |-> attacker, defender |-> hurt, raised |-> TRUE, event |-> ev]
             ELSE [attacker |-> attacker, defender |-> hurt, raised |-> FALSE, event |-> ev]

\* Game.check_collisions(player1, player2): player1's swing first, then player2's
check_collisions(p1, p2, pose1, pose2, im) ==
    LET first == Strike(p1, p2, pose1, im)
    IN  IF first.raised
        THEN [p1 |-> first.attacker, p2 |-> first.defender, raised |-> TRUE,
              events |-> <<first.event, NoEvent>>]
        ELSE LET second == Strike(first.defender, first.attacker, pose2, im)
             IN  [p1 |-> second.defender, p2 |-> second.attacker, raised |-> second.raised,
                  events |-> <<first.event, second.event>>]

-----------------------------------------------------------------------------
(* Bot *)

Difficulties == {"easy", "medium", "hard", "insane"}

\* Bot.set_difficulty: aggression and caution in hundredths, reaction_time in frames
difficulty_settings ==
    [d \in Difficulties |->
        CASE d = "easy"   -> [aggression |-> 40, caution |-> 70, reaction_time |-> 40]
          [] d = "medium" -> [aggression |-> 60, caution |-> 40, reaction_time |-> 25]
          [] d = "hard"   -> [aggression |-> 80, caution |-> 20, reaction_time |-> 15]
          [] d = "insane" -> [aggression |-> 90, caution |-> 10, reaction_time |-> 8]]

\* Bot.__init__.  The monolithic Bot has no difficulty: aggression 0.6, caution 0.4, and no
\* reaction_time (the field is carried with the medium value and never read there).
NewBot(x2, bt, difficulty) ==
    [body_type |-> bt,
     x |-> x2,
     moving_left |-> FALSE,
     moving_right |-> FALSE,
     attacking |-> FALSE,
     blocking |-> FALSE,
     block_direction |-> "left",
     attack_cooldown |-> 0,
     block_cooldown |-> 0,
     attack_animation |-> 0,
     already_hit_in_current_attack |-> FALSE,
     attacking_with_right |-> TRUE,
     health |-> PARAMETERS[bt].health,
     max_health |-> PARAMETERS[bt].max_health,
     decision_cooldown |-> 0,
     difficulty |-> difficulty,
     last_action |-> None,
     aggression |-> difficulty_settings[difficulty].aggression,
     caution |-> difficulty_settings[difficulty].caution,
     reaction_time |-> difficulty_settings[difficulty].reaction_time]

\* the outcomes of the test random.random() < num/den, random() being uniform on [0, 1)
Chance(num, den) == IF num >= den THEN {TRUE} ELSE IF num <= 0 THEN {FALSE} ELSE BOOLEAN

\* the movement command that walks the bot TOWARDS the player (used under every label)
TowardsPlayer(b, player_is_left) == IF player_is_left THEN move_left(b) ELSE move_right(b)

Act(b, label) == [b EXCEPT !.last_action = label]

\* a faulty variant of the banded choice that pays no attention to the distance
ChoiceIgnoringDistance(b, p) ==
    {Act(attack(b, p.x), "attack"), Act(block(b, p.x), "block"),
     Act(TowardsPlayer(b, b.x > p.x), "advance"), Act(b, "wait")}

\* Bot.make_decision (modular), the banded choice: every bot the random draws can produce
ModularChoice(b, p) ==
    LET distance == Abs(b.x - p.x)
        left == b.x > p.x
    IN  IF distance < 2 * 80
        THEN {IF r1 THEN (IF r2 THEN Act(attack(b, p.x), "attack") ELSE Act(block(b, p.x), "block"))
              ELSE IF r3 THEN Act(TowardsPlayer(b, left), "retreat")
              ELSE Act(b, "wait") :
                  r1 \in Chance(b.aggression * 12, 1000), r2 \in Chance(80, 100),
                  r3 \in Chance(b.caution * 8, 1000)}
        ELSE IF distance < 2 * 150
        THEN {IF r1 THEN (IF r2 THEN Act(attack(b, p.x), "attack")
                                ELSE Act(TowardsPlayer(b, left), "advance"))
              ELSE IF r3 THEN Act(block(b, p.x), "block")
              ELSE Act(TowardsPlayer(b, left), "positioning") :
                  r1 \in Chance(b.aggression, 100), r2 \in Chance(60, 100),
                  r3 \in Chance(b.caution, 100)}
        ELSE IF distance < 2 * 250
        THEN {IF r1 THEN Act(TowardsPlayer(b, left), "advance")
              ELSE IF r2 THEN Act(block(b, p.x), "prepare")
              ELSE Act(b, "wait") :
                  r1 \in Chance(60, 100), r2 \in Chance(30, 100)}
        ELSE {IF r1 THEN Act(TowardsPlayer(b, left), "advance") ELSE Act(b, "wait") :
                  r1 \in Chance(80, 100)}

\* Bot.make_decision (modular), the adaptation to the bot's own health
ModularAdapt(b) ==
    IF 10 * b.health < 3 * b.max_health
    THEN [b EXCEPT !.aggression = Min(95, b.aggression + 20),
                   !.caution = Max(5, b.caution - 10)]
    ELSE IF 10 * b.health < 6 * b.max_health
    THEN [b EXCEPT !.aggression = Min(80, b.aggression + 10),
                   !.caution = Max(20, b.caution - 5)]
    ELSE b

\* Bot.make_decision (modular), the new decision_cooldown: random.randint(lo, hi), which
\* raises ValueError when lo > hi
ModularCooldowns(b) == Max(5, b.reaction_time - 5) .. Min(30, b.reaction_time + 5)

\* Bot.make_decision (monolithic), the banded choice
MonolithicChoice(b, p) ==
    LET distance == Abs(b.x - p.x)
        left == b.x > p.x
    IN  IF distance < 2 * 100
        THEN {IF r1 THEN (IF r2 THEN Act(attack(b, p.x), "attack")
                                ELSE Act(TowardsPlayer(b, left), "retreat"))
              ELSE IF r3 THEN Act(block(b, p.x), "block")
              ELSE Act(TowardsPlayer(b, left), "advance") :
                  r1 \in Chance(b.aggression, 100), r2 \in Chance(70, 100),
                  r3 \in Chance(b.caution, 100)}
        ELSE IF distance < 2 * 250
        THEN {IF r1 THEN Act(TowardsPlayer(b, left), "advance")
              ELSE IF r2 THEN Act(block(b, p.x), "prepare")
              ELSE Act(b, "wait") :
                  r1 \in Chance(40, 100), r2 \in Chance(30, 100)}
        ELSE {IF r1 THEN Act(TowardsPlayer(b, left), "advance") ELSE Act(b, "wait") :
                  r1 \in Chance(80, 100)}

\* Bot.make_decision (monolithic), the adaptation, applied after the cooldown is drawn
MonolithicAdapt(b) ==
    IF b.health < 30
    THEN [b EXCEPT !.aggression = Min(90, b.aggression + 10),
                   !.caution = Max(10, b.caution - 10)]
    ELSE b

\* random.randint(10, 25)
MonolithicCooldowns == 10 .. 25

\* the draws of random.randint(lo, hi) that are explored: the two ends of the range
Ends(S) == {n \in S : (\A m \in S : n <= m) \/ (\A m \in S : n >= m)}

\* a faulty variant of ClearForDecision that stops the bot and leaves attacking and blocking set
ClearMovementOnly(b) == stop_moving(b)

\* the flags a fresh decision clears before it chooses: stop_moving(), attacking = False,
\* blocking = False (the counters attack_animation, attack_cooldown, block_cooldown and
\* already_hit_in_current_attack are left as they are)
ClearForDecision(b) == [stop_moving(b) EXCEPT !.attacking = FALSE, !.blocking = FALSE]

\* a faulty variant of make_decision that decides on every call, whatever decision_cooldown is
MakeDecisionEveryCall(b, p, im) ==
    {[bot |-> MonolithicAdapt([c EXCEPT !.decision_cooldown = cd]), raised |-> FALSE] :
        c \in MonolithicChoice(ClearForDecision(b), p), cd \in Ends(MonolithicCooldowns)}

\* a faulty variant of make_decision that counts decision_cooldown down on every other call only
MakeDecisionCountingSlowly(b, p, im) ==
    IF b.decision_cooldown > 0
    THEN {[bot |-> [b EXCEPT !.decision_cooldown = b.decision_cooldown - 1], raised |-> FALSE],
          [bot |-> b, raised |-> FALSE]}
    ELSE {[bot |-> MonolithicAdapt([c EXCEPT !.decision_cooldown = cd]), raised |-> FALSE] :
              c \in MonolithicChoice(ClearForDecision(b), p), cd \in Ends(MonolithicCooldowns)}

\* Bot.make_decision(player, screen_width): every result the random draws can produce, each a
\* record [bot, raised]; raised is the ValueError of randint on an empty range.
\* The modular branch "if hasattr(player, 'last_action')" is dead: the Game passes a Player.
make_decision(b, p, im) ==
    IF b.decision_cooldown > 0
    THEN {[bot |-> [b EXCEPT !.decision_cooldown = b.decision_cooldown - 1], raised |-> FALSE]}
    ELSE IF im = "modular"
    THEN LET chosen == {ModularAdapt(c) : c \in ModularChoice(ClearForDecision(b), p)}
         IN  IF ModularCooldowns(b) = {}
             THEN {[bot |-> c, raised |-> TRUE] : c \in chosen}
             ELSE {[bot |-> [c EXCEPT !.decision_cooldown = cd], raised |-> FALSE] :
                       c \in chosen, cd \in Ends(ModularCooldowns(b))}
    ELSE {[bot |-> MonolithicAdapt([c EXCEPT !.decision_cooldown = cd]), raised |-> FALSE] :
              c \in MonolithicChoice(ClearForDecision(b), p), cd \in Ends(MonolithicCooldowns)}

\* Bot.update: Player.update, and in the modular Bot a random block when health is below 30 %
\* (the monolithic Bot inherits Player.update unchanged)
bot_update(b, sw, opp, im) ==
    LET u == update(b, sw, opp)
    IN  IF im = "modular" /\ 10 * u.health < 3 * u.max_health /\ opp # <<>>
        THEN {IF r THEN block(u, opp[1]) ELSE u : r \in Chance(30, 100)}
        ELSE {u}

-----------------------------------------------------------------------------
(* Game: a match in progress *)

PVP == "player_vs_player"
PVB == "player_vs_bot"

\* the winner strings of the Game, transliterated
WINNER_BOT == "BOT"
WINNER_P1 == "PLAYER 1"
WINNER_P2 == "PLAYER 2"

\* the opponent of player1 in the running mode
Opponent == IF state = PVB THEN bot ELSE player2

\* the two fighters of the running match
Fighters == <<player1, Opponent>>

\* bookkeeping of one swing: damage applications, whether the resolver saw it at all,
\* whether its attack rectangle met the body on every resolver call so far, whether
\* the defender was ever blocking at a resolver call, and whether the block test ever
\* succeeded against it
NewSwing == [hits |-> 0, resolved |-> FALSE, in_reach |-> TRUE, defender_blocked |-> FALSE,
             blocked |-> FALSE]

\* a swing started by this call of attack(): the call succeeded
StartsSwing(before, after) ==
    before.attack_cooldown <= 0 /\ after.attacking /\ after.attack_animation = ATTACK_ANIMATION

\* the swing record after one resolver call in which the attacker's swing is live
SwingAfter(sw, attacker, defender, pose, ev) ==
    IF ~attacker.attacking THEN sw
    ELSE [hits |-> sw.hits + (IF ev.kind = "hit" THEN 1 ELSE 0),
          resolved |-> TRUE,
          in_reach |-> sw.in_reach /\ colliderect(get_attack_rect(attacker, pose), get_rect(defender)),
          defender_blocked |-> sw.defender_blocked \/ defender.blocking,
          blocked |-> sw.blocked \/ ev.kind = "blocked"]

MoveKeys1 == {"a", "d"}
MoveKeys2 == {"left", "right"}
Keys1 == {"a", "d", "lalt", "w"}
Keys2 == {"left", "right", "ralt", "up"}

\* handle_game_keydown / handle_game_events(KEYDOWN), the part for player1
KeyDown1(p, key, opponent_x) ==
    CASE key = "a" -> move_left(p)
      [] key = "d" -> move_right(p)
      [] key = "lalt" -> attack(p, opponent_x)
      [] key = "w" -> block(p, opponent_x)
      [] OTHER -> p

\* handle_game_keydown / handle_game_events(KEYDOWN), the part for player2 (player_vs_player only)
KeyDown2(p, key, opponent_x) ==
    CASE key = "left" -> move_left(p)
      [] key = "right" -> move_right(p)
      [] key = "ralt" -> attack(p, opponent_x)
      [] key = "up" -> block(p, opponent_x)
      [] OTHER -> p

\* Game.handle_game_keydown (modular) / Game.handle_game_events, KEYDOWN (monolithic)
KeyDown(key) ==
    /\ ~crashed
    /\ state \in {PVP, PVB}
    /\ key \in (IF state = PVP THEN Keys1 \cup Keys2 ELSE Keys1)
    /\ key \notin held
    /\ keys_used' = keys_used + 1
    /\ held' = IF key \in MoveKeys1 \cup MoveKeys2 THEN held \cup {key} ELSE held
    /\ IF battle_finished
       THEN UNCHANGED <<player1, player2, swing>>
       ELSE LET p1 == KeyDown1(player1, key, Opponent.x)
                p2 == IF state = PVP THEN KeyDown2(player2, key, p1.x) ELSE player2
            IN  /\ player1' = p1
                /\ player2' = p2
                /\ swing' = [swing EXCEPT
                              ![1] = IF key = "lalt" /\ StartsSwing(player1, p1) THEN NewSwing ELSE @,
                              ![2] = IF state = PVP /\ key = "ralt" /\ StartsSwing(player2, p2)
                                     THEN NewSwing ELSE @]
    /\ UNCHANGED <<impl, state, bot, battle_finished, winner, round_time, crashed, events,
                   since_attack, last_call, hits_landed, menu>>

\* a faulty variant of KeyUp without the early return of a finished battle
KeyUpAfterTheEnd(key) ==
    /\ ~crashed
    /\ state \in {PVP, PVB}
    /\ key \in held
    /\ held' = held \ {key}
    /\ player1' = IF key \in MoveKeys1 THEN stop_moving(player1) ELSE player1
    /\ player2' = IF state = PVP /\ key \in MoveKeys2 THEN stop_moving(player2) ELSE player2
    /\ UNCHANGED <<impl, state, bot, battle_finished, winner, round_time, crashed, keys_used,
                   events, swing, since_attack, last_call, hits_landed, menu>>

\* Game.handle_game_keyup (modular) / Game.handle_game_events, KEYUP (monolithic)
KeyUp(key) ==
    /\ ~crashed
    /\ state \in {PVP, PVB}
    /\ key \in held
    /\ held' = held \ {key}
    /\ IF battle_finished
       THEN UNCHANGED <<player1, player2>>
       ELSE /\ player1' = IF key \in MoveKeys1 THEN stop_moving(player1) ELSE player1
            /\ player2' = IF state = PVP /\ key \in MoveKeys2 THEN stop_moving(player2) ELSE player2
    /\ UNCHANGED <<impl, state, bot, battle_finished, winner, round_time, crashed, keys_used,
                   events, swing, since_attack, last_call, hits_landed, menu>>

\* Game.handle_continuous_input (monolithic only; the modular Game has no such step):
\* every frame the held movement keys are applied again, left before right
ContinuousInput(p, left_key, right_key, im) ==
    IF im = "modular" THEN p
    ELSE LET q == IF left_key \in held THEN move_left(p) ELSE p
         IN  IF right_key \in held THEN move_right(q) ELSE q

\* a faulty variant of check_battle_end that only looks at player1's health
EndTestOfPlayer1Only(p1, opp, st, finished, win) ==
    IF p1.health <= 0 THEN <<TRUE, IF st = PVB THEN WINNER_BOT ELSE WINNER_P2>>
    ELSE <<finished, win>>

\* Game.check_battle_end (modular) / the end test inside Game.update_game (monolithic):
\* <<battle_finished, winner>> after it
check_battle_end(p1, opp, st, finished, win) ==
    IF p1.health <= 0 THEN <<TRUE, IF st = PVB THEN WINNER_BOT ELSE WINNER_P2>>
    ELSE IF opp.health <= 0 THEN <<TRUE, WINNER_P1>>
    ELSE <<finished, win>>

\* the rest of update_game once both fighters are updated and the bot has decided:
\* check_collisions, then the end test, which an exception in the resolver skips
Resolve(p1, opp, pose1, pose2, sw) ==
    LET res == check_collisions(p1, opp, pose1, pose2, impl)
        fin == check_battle_end(res.p1, res.p2, state, battle_finished, winner)
        second_ran == ~(Strike(p1, opp, pose1, impl).raised)
    IN  /\ player1' = res.p1
        /\ IF state = PVB THEN bot' = res.p2 /\ UNCHANGED player2
                          ELSE player2' = res.p2 /\ UNCHANGED bot
        /\ events' = res.events
        /\ hits_landed' = hits_landed + (IF res.events[1].kind = "hit" THEN 1 ELSE 0)
        /\ swing' = [sw EXCEPT
                       ![1] = SwingAfter(@, p1, opp, pose1, res.events[1]),
                       ![2] = IF second_ran THEN SwingAfter(@, opp, p1, pose2, res.events[2]) ELSE @]
        /\ crashed' = res.raised
        /\ battle_finished' = IF res.raised THEN battle_finished ELSE fin[1]
        /\ winner' = IF res.raised THEN winner ELSE fin[2]

\* Game.update_game, one frame of a running match (with the monolithic frame's
\* handle_continuous_input in front of it)
UpdateGame ==
    /\ ~crashed
    /\ state \in {PVP, PVB}
    /\ IF battle_finished
       THEN UNCHANGED vars
       ELSE /\ round_time' = round_time + 1
            /\ UNCHANGED <<impl, state, held, keys_used, since_attack, last_call, menu>>
            /\ LET p1c == ContinuousInput(player1, "a", "d", impl)
                   p1u == update(p1c, screen_width, <<Opponent.x>>)
                   pose1 == update_body_parts(p1u)
               IN  IF state = PVP
                   THEN LET p2c == ContinuousInput(player2, "left", "right", impl)
                            p2u == update(p2c, screen_width, <<p1u.x>>)
                        IN  Resolve(p1u, p2u, pose1, update_body_parts(p2u), swing)
                   ELSE \E bu \in bot_update(bot, screen_width, <<p1u.x>>, impl) :
                        \E d \in make_decision(bu, p1u, impl) :
                           IF d.raised
                           THEN /\ player1' = p1u
                                /\ bot' = d.bot
                                /\ crashed' = TRUE
                                /\ UNCHANGED <<player2, battle_finished, winner, events, swing,
                                               hits_landed, menu>>
                           ELSE Resolve(p1u, d.bot, pose1, update_body_parts(bu),
                                        [swing EXCEPT ![2] = IF StartsSwing(bu, d.bot)
                                                             THEN NewSwing ELSE @])

\* where a fighter stands after walking `steps` frames from its start position towards the other
WalkedFrom(start_x, bt, steps, dir) == 2 * start_x + dir * steps * PARAMETERS[bt].speed2

\* Game.start_player_vs_player / start_player_vs_bot: start positions 200 and screen_width - 300
START_X1 == 200
StartX2 == screen_width - 300

\* the walking distances the matches of Spec begin with
InitSteps1 == {41, 51}
InitSteps2 == {45}

\* A match in progress in which both fighters have walked towards each other and stand
\* idle within reach, every timer run out (the player came in by held keys; the bot by
\* "advance" decisions followed by a "wait").  With InitSteps1 = 41 player1 stands left of
\* its opponent, with 51 it has walked into it and stands a few pixels to its right.
Init ==
    /\ impl \in Impls
    /\ state \in {PVP, PVB}
    /\ \E bt1 \in {"athletic"}, bt2 \in {"athletic", "ninja"},
          s1 \in InitSteps1, s2 \in InitSteps2 :
          /\ player1 = NewPlayer(WalkedFrom(START_X1, bt1, s1, 1), bt1)
          /\ IF state = PVP
             THEN /\ player2 = NewPlayer(WalkedFrom(StartX2, bt2, s2, -1), bt2)
                  /\ bot = NoFighter
             ELSE /\ player2 = NoFighter
                  /\ bot = [NewBot(WalkedFrom(StartX2, bt2, s2, -1), bt2, "medium")
                               EXCEPT !.last_action = "wait"]
    /\ battle_finished = FALSE
    /\ winner = None
    /\ round_time = 0
    /\ crashed = FALSE
    /\ held = {}
    /\ keys_used = 0
    /\ events = <<NoEvent, NoEvent>>
    /\ swing = <<NewSwing, NewSwing>>
    /\ since_attack = 0
    /\ last_call = None
    /\ hits_landed = 0
    /\ menu = NewMenu

\* one frame of the loop in Game.run, within the frames explored
Tick == round_time < MaxTicks /\ UpdateGame

\* a key pressed, within the key presses explored
Press(key) == keys_used < MaxKeys /\ KeyDown(key)

Next ==
    \/ \E key \in Keys1 \cup Keys2 : Press(key)
    \/ \E key \in MoveKeys1 \cup MoveKeys2 : KeyUp(key)
    \/ Tick

Spec == Init /\ [][Next]_vars

-----------------------------------------------------------------------------
(* Properties of a match (Spec) *)

\* C1: when the attack rectangle of an attacking fighter meets a defender who is blocking
\* on the wrong side (the resolver's side test fails), that resolver call applies the full
\* damage: the defender's health goes down by the hit's damage.
C1_WrongSideBlockTakesFullDamage ==
    \A i \in 1..2 :
        events[i].wrong_side =>
            events[i].health_after = Max(0, events[i].health_before - events[i].damage)

\* C2: over the resolver calls of one swing the defender's health is reduced at most once,
\* also when the attack rectangle meets the body on every call; and exactly once when it
\* meets the body on every call and the defender never blocks.
C2_AtMostOneHitPerSwing ==
    \A i \in 1..2 :
        /\ swing[i].hits <= 1
        /\ (swing[i].resolved /\ swing[i].in_reach /\ ~swing[i].defender_blocked)
               => swing[i].hits = 1

\* C2, its case: a swing that has landed its hit and has stayed in reach of the defender
\* for ten further resolver calls
C2_SwingStaysInReachAfterItsHit ==
    \E i \in 1..2 :
        /\ swing[i].hits = 1 /\ swing[i].in_reach
        /\ Fighters[i].attacking /\ Fighters[i].attack_animation <= 4

\* C5: for every fighter of a match, human or bot, blocking is true exactly while
\* block_cooldown > 0.
C5_BlockingIffBlockCooldown ==
    \A i \in 1..2 : Fighters[i].blocking <=> Fighters[i].block_cooldown > 0

\* C6: for every fighter of a match, human or bot, attack_animation > 0 if and only if
\* attacking is true.
C6_AnimationIffAttacking ==
    \A i \in 1..2 : Fighters[i].attack_animation > 0 <=> Fighters[i].attacking

-----------------------------------------------------------------------------
(* The fighter on its own: the methods of Player called directly, in any order *)

API == "api"

\* the Game's own variables while no match runs
NoMatch ==
    /\ bot = NoFighter
    /\ battle_finished = FALSE
    /\ winner = None
    /\ round_time = 0
    /\ crashed = FALSE
    /\ held = {}
    /\ keys_used = 0
    /\ events = <<NoEvent, NoEvent>>
    /\ swing = <<NewSwing, NewSwing>>
    /\ hits_landed = 0
    /\ menu = NewMenu

\* what a direct call of the fighter API leaves alone
ApiFrame ==
    UNCHANGED <<impl, state, player2, bot, battle_finished, winner, round_time, crashed, held,
                keys_used, events, swing, hits_landed, menu>>

(* Movement: move_left, move_right, stop_moving and update on a fighter of every *)
(* archetype, from either start position of a match.  last_call holds the last two calls. *)

InitMove ==
    /\ impl \in Impls
    /\ state = API
    /\ \E bt \in BodyTypes, x \in {START_X1, StartX2} : player1 = NewPlayer(2 * x, bt)
    /\ player2 = NoFighter
    /\ since_attack = ATTACK_COOLDOWN
    /\ last_call = <<None, None>>
    /\ NoMatch

CallMoveLeft ==
    /\ state = API
    /\ player1' = move_left(player1)
    /\ last_call' = <<last_call[2], "move_left">>
    /\ UNCHANGED since_attack /\ ApiFrame

CallMoveRight ==
    /\ state = API
    /\ player1' = move_right(player1)
    /\ last_call' = <<last_call[2], "move_right">>
    /\ UNCHANGED since_attack /\ ApiFrame

CallStopMoving ==
    /\ state = API
    /\ player1' = stop_moving(player1)
    /\ last_call' = <<last_call[2], "stop_moving">>
    /\ UNCHANGED since_attack /\ ApiFrame

\* update(ground_y, screen_width) without an opponent
CallUpdateAlone ==
    /\ state = API
    /\ player1' = update(player1, screen_width, <<>>)
    /\ last_call' = <<last_call[2], "update">>
    /\ UNCHANGED since_attack /\ ApiFrame

NextMove == CallMoveLeft \/ CallMoveRight \/ CallStopMoving \/ CallUpdateAlone

SpecMove == InitMove /\ [][NextMove]_vars

\* C8: a fighter that starts inside [0, arena_width - width] stays inside it under any
\* sequence of move_left / move_right / stop_moving commands and update() ticks, for
\* every archetype speed.
C8_StaysInsideArena ==
    /\ 0 <= player1.x
    /\ player1.x <= 2 * (screen_width - Params(player1).width)

\* C9: moving_left and moving_right are never both true, and move_left followed by
\* move_right leaves moving_left false and moving_right true.
C9_DirectionsExclusive ==
    /\ ~(player1.moving_left /\ player1.moving_right)
    /\ last_call = <<"move_left", "move_right">>
          => (~player1.moving_left /\ player1.moving_right)

\* C9, its case: move_right has just been called on a fighter that move_left had set moving left
C9_TurnedAround ==
    last_call = <<"move_left", "move_right">> /\ player1.moving_right

(* Timers: attack, block and update on a fighter standing at its start position, the *)
(* opponent on either side of it.  last_call holds the last call and the health before it. *)

\* where the opponent stands in these calls: at the other start position, or at the arena's left edge
OpponentXs == {0, 2 * StartX2}

InitTimers ==
    /\ impl \in Impls
    /\ state = API
    /\ \E bt \in {"athletic", "sumo"} : player1 = NewPlayer(2 * START_X1, bt)
    /\ player2 = NoFighter
    /\ since_attack = ATTACK_COOLDOWN
    /\ last_call = [name |-> None, health_before |-> 0]
    /\ NoMatch

\* attack(opponent_x); since_attack restarts when the call begins a swing
CallAttack(opponent_x) ==
    /\ state = API
    /\ player1' = attack(player1, opponent_x)
    /\ since_attack' = IF StartsSwing(player1, player1') THEN 0 ELSE since_attack
    /\ last_call' = [name |-> "attack", health_before |-> player1.health]
    /\ ApiFrame

\* block(opponent_x)
CallBlock(opponent_x) ==
    /\ state = API
    /\ player1' = block(player1, opponent_x)
    /\ last_call' = [name |-> "block", health_before |-> player1.health]
    /\ UNCHANGED since_attack /\ ApiFrame

\* update(ground_y, screen_width, opponent_x), opp being <<>> for no opponent_x
CallUpdate(opp) ==
    /\ state = API
    /\ player1' = update(player1, screen_width, opp)
    /\ since_attack' = Min(ATTACK_COOLDOWN, since_attack + 1)
    /\ last_call' = [name |-> "update", health_before |-> player1.health]
    /\ ApiFrame

NextTimers ==
    \/ \E ox \in OpponentXs : CallAttack(ox)
    \/ \E ox \in OpponentXs : CallBlock(ox)
    \/ \E opp \in {<<>>} \cup {<<ox>> : ox \in OpponentXs} : CallUpdate(opp)

SpecTimers == InitTimers /\ [][NextTimers]_vars

\* the fields a call of attack() may write
SwingFields(f) ==
    <<f.attack_animation, f.attack_cooldown, f.attacking, f.attacking_with_right,
      f.block_direction, f.already_hit_in_current_attack>>

\* C3: an attack() call made fewer than 30 update() ticks after a successful attack() is a
\* no-op: attack_animation, attack_cooldown, attacking, attacking_with_right,
\* block_direction and already_hit_in_current_attack all keep their values.
C3_SecondAttackIsNoOp ==
    [][(last_call'.name = "attack" /\ since_attack < ATTACK_COOLDOWN)
          => SwingFields(player1') = SwingFields(player1)]_vars

\* C3, its case: attack() has just been called again, between 1 and 29 update() ticks after
\* a successful attack(), with the opponent now on the other side than when the swing began
C3_AttackCalledInsideCooldown ==
    /\ last_call.name = "attack"
    /\ since_attack > 0 /\ since_attack < ATTACK_COOLDOWN
    /\ player1.attacking_with_right /\ player1.block_direction = "right"

(* Health: take_damage and heal, with block and update in between so that both the *)
(* blocking and the open fighter are hit. *)

\* the unit of the amounts handed to take_damage and heal
AmountStep == 45

\* the amounts: 0, and steps up to more than any archetype's max_health
Amounts == {k * AmountStep : k \in 0..MaxAmount}

InitHealth ==
    /\ impl \in Impls
    /\ state = API
    /\ \E bt \in BodyTypes : player1 = NewPlayer(2 * START_X1, bt)
    /\ player2 = NoFighter
    /\ since_attack = ATTACK_COOLDOWN
    /\ last_call = [name |-> None, health_before |-> 0]
    /\ NoMatch

\* take_damage(amount)
CallTakeDamage(amount) ==
    /\ state = API
    /\ player1' = take_damage(player1, amount)
    /\ last_call' = [name |-> "take_damage", health_before |-> player1.health]
    /\ UNCHANGED since_attack /\ ApiFrame

\* take_damage() of the modular Player: the amount defaults to the fighter's own params.damage
CallTakeDamageDefault ==
    /\ state = API
    /\ player1' = take_damage(player1, ResolverDamage(player1, impl))
    /\ last_call' = [name |-> "take_damage", health_before |-> player1.health]
    /\ UNCHANGED since_attack /\ ApiFrame

\* heal(amount); only the modular Player has it
CallHeal(amount) ==
    /\ state = API
    /\ impl = "modular"
    /\ player1' = heal(player1, amount)
    /\ last_call' = [name |-> "heal", health_before |-> player1.health]
    /\ UNCHANGED since_attack /\ ApiFrame

NextHealth ==
    \/ \E amount \in Amounts : CallTakeDamage(amount)
    \/ CallTakeDamageDefault
    \/ \E amount \in Amounts : CallHeal(amount)
    \/ CallBlock(2 * StartX2)
    \/ CallUpdate(<<>>)

SpecHealth == InitHealth /\ [][NextHealth]_vars

BlockTestXs == {START_X1, (START_X1 + StartX2) \div 2, StartX2}

\* player1 is a fighter in mid-swing: it stood at START_X1 when it attacked an opponent at
\* aim, and stands at xa now.  player2 is a defender standing at xd: idle (aim = <<>>), or
\* having blocked an opponent at aim[1] from START_X1.
InitBlockTest ==
    /\ impl \in Impls
    /\ state = API
    /\ \E xa \in BlockTestXs, aim \in OpponentXs :
          player1 = [attack(NewPlayer(2 * START_X1, "athletic"), aim) EXCEPT !.x = 2 * xa]
    /\ \E xd \in BlockTestXs, aim \in {<<>>} \cup {<<ox>> : ox \in OpponentXs} :
          player2 = IF aim = <<>> THEN NewPlayer(2 * xd, "athletic")
                    ELSE [block(NewPlayer(2 * START_X1, "athletic"), aim[1]) EXCEPT !.x = 2 * xd]
    /\ since_attack = 0
    /\ last_call = [name |-> None, result |-> FALSE]
    /\ NoMatch

\* check_block(defender = player2, attacker = player1)
CallCheckBlock ==
    /\ state = API
    /\ last_call.name = None
    /\ last_call' = [name |-> "check_block", result |-> check_block(player2, player1)]
    /\ UNCHANGED <<player1, since_attack>> /\ ApiFrame

NextBlockTest == CallCheckBlock

SpecBlockTest == InitBlockTest /\ [][NextBlockTest]_vars

\* C4: the block test succeeds if and only if the defender is blocking and either the
\* attacker strikes with the right hand, the defender's block_direction is right and
\* attacker.x < defender.x, or the attacker strikes with the left hand, the defender's
\* block_direction is left and attacker.x > defender.x; it fails for every other
\* combination, attacker.x = defender.x included.
C4_BlockTest ==
    last_call.name = "check_block" =>
        (last_call.result <=>
            /\ player2.blocking
            /\ \/ /\ player1.attacking_with_right
                  /\ player2.block_direction = "right"
                  /\ player1.x < player2.x
               \/ /\ ~player1.attacking_with_right
                  /\ player2.block_direction = "left"
                  /\ player1.x > player2.x)

\* C4, its case: the test has failed for a blocking defender whose block_direction matches
\* the attacker's hand, the two standing at the same x
C4_FailsAtEqualX ==
    /\ last_call.name = "check_block" /\ ~last_call.result
    /\ player2.blocking /\ player1.x = player2.x
    /\ player1.attacking_with_right <=> player2.block_direction = "right"

-----------------------------------------------------------------------------
(* A one-sided duel: player_vs_player, both fighters athletic (damage 10, health 100) and *)
(* within reach of each other; player1 presses its attack key whenever its attack       *)
(* cooldown has run out, player2 does nothing at all.                                    *)

InitDuel ==
    /\ impl \in Impls
    /\ state = PVP
    /\ \E s1 \in InitSteps1, s2 \in InitSteps2 :
          /\ player1 = NewPlayer(WalkedFrom(START_X1, "athletic", s1, 1), "athletic")
          /\ player2 = NewPlayer(WalkedFrom(StartX2, "athletic", s2, -1), "athletic")
    /\ since_attack = 0
    /\ last_call = None
    /\ NoMatch

\* player1's attack key, pressed as soon as attack() can succeed
DuelAttack ==
    /\ ~battle_finished
    /\ player1.attack_cooldown = 0
    /\ KeyDown("lalt")

\* a frame of the loop, while player1 waits for its cooldown or the match is over
DuelTick ==
    /\ battle_finished \/ player1.attack_cooldown > 0
    /\ UpdateGame

NextDuel == DuelAttack \/ DuelTick

\* Game.run keeps stepping frames for as long as the process lives
SpecDuel == InitDuel /\ [][NextDuel]_vars /\ WF_vars(NextDuel)

\* the end of the duel the ten hits are to bring about
DuelWon ==
    /\ player2.health = 0
    /\ battle_finished /\ winner = WINNER_P1
    /\ player1.health = 100

\* C10: with two fighters of archetype damage 10 and starting health 100, fighter A landing
\* ten unblocked hits on fighter B, who never attacks, brings B's health to 0; the
\* match-end condition fires in that tick with A as the winner, and A's health is still 100.
C10_TenHitsEndTheMatch ==
    /\ <>(hits_landed = 10 /\ DuelWon)
    /\ [](hits_landed = 10 => DuelWon)

-----------------------------------------------------------------------------
(* The last frames of a match: the fighters of Spec, one hit away from defeat.  Only the *)
(* monolithic Game gets this far; the modular Game is taken at full health, the only     *)
(* health its fighters can have in a running match.                                      *)

\* the health both fighters are left with: one monolithic hit
LastHit == MONOLITHIC_DAMAGE

InitEndgame ==
    /\ impl \in Impls
    /\ state \in {PVP, PVB}
    /\ \E s1 \in InitSteps1, s2 \in InitSteps2 :
          LET p1 == NewPlayer(WalkedFrom(START_X1, "athletic", s1, 1), "athletic")
              p2 == NewPlayer(WalkedFrom(StartX2, "athletic", s2, -1), "athletic")
              b  == [NewBot(WalkedFrom(StartX2, "athletic", s2, -1), "athletic", "medium")
                        EXCEPT !.last_action = "wait"]
              late == impl = "monolithic"
          IN  /\ player1 = IF late THEN [p1 EXCEPT !.health = LastHit] ELSE p1
              /\ IF state = PVP
                 THEN /\ player2 = IF late THEN [p2 EXCEPT !.health = LastHit] ELSE p2
                      /\ bot = NoFighter
                 ELSE /\ player2 = NoFighter
                      \* late in a monolithic match the bot's adaptation below 30 health
                      \* has run to its limits
                      /\ bot = IF late
                               THEN [b EXCEPT !.health = LastHit, !.aggression = 90,
                                              !.caution = 10]
                               ELSE b
    /\ battle_finished = FALSE
    /\ winner = None
    /\ round_time = 0
    /\ crashed = FALSE
    /\ held = {}
    /\ keys_used = 0
    /\ events = <<NoEvent, NoEvent>>
    /\ swing = <<NewSwing, NewSwing>>
    /\ since_attack = 0
    /\ last_call = None
    /\ hits_landed = 0
    /\ menu = NewMenu

SpecEndgame == InitEndgame /\ [][Next]_vars

\* C11: at the end of every update_game tick of a running match, battle_finished is true
\* if and only if some fighter's health is 0 (the match ends in the very tick in which a
\* health reaches 0 and nothing else ends it), and winner is set exactly when
\* battle_finished is true.
C11_FinishedIffHealthZero ==
    /\ battle_finished <=> (player1.health = 0 \/ Opponent.health = 0)
    /\ battle_finished <=> winner # None

\* C11, its case: a tick has brought the opponent's health to 0 and ended the match,
\* player1 still standing
C11_MatchJustEnded ==
    /\ Opponent.health = 0 /\ player1.health > 0
    /\ battle_finished /\ winner = WINNER_P1
    /\ events[1].kind = "hit" /\ events[1].health_after = 0

-----------------------------------------------------------------------------
(* The bot's decisions on their own: make_decision called again and again on one Bot, *)
(* the player standing still. *)

\* how far the bot has walked in from its start position: far from the player, at middle
\* distance, near, and very near
BotSteps == {0, 10, 30, 45}

\* the player the bot decides about: idle, where Spec lets player1 stand
StandingPlayer == NewPlayer(WalkedFrom(START_X1, "athletic", 41, 1), "athletic")

\* an idle bot that has walked steps frames towards the player
WalkedBot(steps, difficulty) ==
    NewBot(WalkedFrom(StartX2, "athletic", steps, -1), "athletic", difficulty)

\* last_call before any call: the last call's name, the calls made, the commands issued,
\* and the bot as it was before the last call
NoCalls == [name |-> None, calls |-> 0, commands |-> 0, before |-> None]

\* what a direct call on the bot leaves alone
BotFrame ==
    UNCHANGED <<impl, state, player1, player2, battle_finished, winner, round_time, held,
                keys_used, events, swing, since_attack, hits_landed, menu>>

\* a bot that has just taken a decision (any of them) and drawn decision_cooldown = 25:
\* randint(20, 30) of the modular medium bot, randint(10, 25) of the monolithic bot
InitCooldown ==
    /\ impl \in Impls
    /\ state = API
    /\ player1 = StandingPlayer
    /\ player2 = NoFighter
    /\ \E steps \in BotSteps :
         \E d \in make_decision(WalkedBot(steps, "medium"), StandingPlayer, impl) :
            bot = [d.bot EXCEPT !.decision_cooldown = 25]
    /\ battle_finished = FALSE
    /\ winner = None
    /\ round_time = 0
    /\ crashed = FALSE
    /\ held = {}
    /\ keys_used = 0
    /\ events = <<NoEvent, NoEvent>>
    /\ swing = <<NewSwing, NewSwing>>
    /\ since_attack = 0
    /\ last_call = NoCalls
    /\ hits_landed = 0
    /\ menu = NewMenu

\* bot.make_decision(player, screen_width); a ValueError raised inside ends the caller
CallMakeDecision ==
    /\ state = API
    /\ ~crashed
    /\ last_call.calls < MaxCalls
    /\ \E d \in make_decision(bot, player1, impl) :
          /\ bot' = d.bot
          /\ crashed' = d.raised
          /\ last_call' = [name |-> "make_decision",
                           calls |-> last_call.calls + 1,
                           \* a fresh decision: something other than decision_cooldown
                           \* changed, or decision_cooldown did not simply go down by one
                           commands |-> last_call.commands
                                          + (IF \/ [d.bot EXCEPT !.decision_cooldown = bot.decision_cooldown] # bot
                                                \/ d.bot.decision_cooldown # bot.decision_cooldown - 1
                                             THEN 1 ELSE 0),
                           before |-> bot]
    /\ BotFrame

NextCooldown == CallMakeDecision

SpecCooldown == InitCooldown /\ [][NextCooldown]_vars

\* C12: starting from decision_cooldown = 25, over the next 25 consecutive make_decision
\* calls the bot issues at most one new command; each call with decision_cooldown > 0
\* only takes one off the cooldown.
C12_CooldownRespected ==
    last_call.calls <= 25 =>
        /\ last_call.commands <= 1
        /\ bot.decision_cooldown = 25 - last_call.calls

\* C12, its case: the 25th call has been made, and the bot that began by attacking still
\* carries that command
C12_TwentyFiveCallsMade ==
    /\ last_call.calls = 25 /\ last_call.commands = 0
    /\ bot.last_action = "attack" /\ bot.attacking

-----------------------------------------------------------------------------
(* The bot's tick on its own: Bot.update followed by make_decision, as update_pvb_mode    *)
(* calls them, on a Bot of any difficulty whose health take_damage calls bring down.   *)

InitBotTick ==
    /\ impl \in Impls
    /\ state = API
    /\ player1 = StandingPlayer
    /\ player2 = NoFighter
    /\ \E steps \in {30, 45}, difficulty \in Difficulties :
          /\ impl = "monolithic" => difficulty = "medium"
          /\ bot = WalkedBot(steps, difficulty)
    /\ battle_finished = FALSE
    /\ winner = None
    /\ round_time = 0
    /\ crashed = FALSE
    /\ held = {}
    /\ keys_used = 0
    /\ events = <<NoEvent, NoEvent>>
    /\ swing = <<NewSwing, NewSwing>>
    /\ since_attack = 0
    /\ last_call = NoCalls
    /\ hits_landed = 0
    /\ menu = NewMenu

\* bot.update(ground_y, screen_width, player1.x); bot.make_decision(player1, screen_width)
CallBotTick ==
    /\ state = API
    /\ ~crashed
    /\ last_call.calls < MaxBotTicks
    /\ \E bu \in bot_update(bot, screen_width, <<player1.x>>, impl) :
       \E d \in make_decision(bu, player1, impl) :
          /\ bot' = d.bot
          /\ crashed' = d.raised
    /\ last_call' = [last_call EXCEPT !.name = "tick", !.calls = @ + 1, !.before = bot]
    /\ BotFrame

\* bot.take_damage(amount)
CallBotTakeDamage(amount) ==
    /\ state = API
    /\ ~crashed
    /\ amount > 0
    /\ bot.health > 0
    /\ bot' = take_damage(bot, amount)
    /\ last_call' = [last_call EXCEPT !.name = "take_damage", !.before = bot]
    /\ UNCHANGED crashed /\ BotFrame

NextBotTick ==
    \/ CallBotTick
    \/ \E amount \in Amounts : CallBotTakeDamage(amount)

SpecBotTick == InitBotTick /\ [][NextBotTick]_vars

\* C13: on every tick (Bot.update followed by make_decision) in which the bot's
\* decision_cooldown is > 0, the bot issues no command: no new block and no new attack is
\* started and its movement flags are unchanged.
C13_NoCommandDuringCooldown ==
    (last_call.name = "tick" /\ last_call.before.decision_cooldown > 0) =>
        /\ ~(bot.blocking /\ bot.block_cooldown = BLOCK_COOLDOWN)
        /\ ~(bot.attacking /\ bot.attack_animation = ATTACK_ANIMATION)
        /\ bot.moving_left = last_call.before.moving_left
        /\ bot.moving_right = last_call.before.moving_right

-----------------------------------------------------------------------------
(* The bot's decisions over a match: make_decision called again and again on a Bot of *)
(* any difficulty, from its construction on, while take_damage calls bring its health *)
(* down.                                                                              *)

InitDecide ==
    /\ impl \in Impls
    /\ state = API
    /\ player1 = StandingPlayer
    /\ player2 = NoFighter
    /\ \E steps \in BotSteps, difficulty \in Difficulties :
          /\ impl = "monolithic" => difficulty = "medium"
          /\ bot = WalkedBot(steps, difficulty)
    /\ battle_finished = FALSE
    /\ winner = None
    /\ round_time = 0
    /\ crashed = FALSE
    /\ held = {}
    /\ keys_used = 0
    /\ events = <<NoEvent, NoEvent>>
    /\ swing = <<NewSwing, NewSwing>>
    /\ since_attack = 0
    /\ last_call = NoCalls
    /\ hits_landed = 0
    /\ menu = NewMenu

NextDecide ==
    \/ CallMakeDecision
    \/ \E amount \in Amounts : CallBotTakeDamage(amount)

SpecDecide == InitDecide /\ [][NextDecide]_vars

\* the last call was a make_decision call that found decision_cooldown = 0
DecisionTaken == last_call.name = "make_decision" /\ last_call.before.decision_cooldown = 0

\* C14: for each of the four difficulty presets, a decision taken when decision_cooldown
\* is 0 completes without error and leaves decision_cooldown in the preset's range around
\* its reaction_time, which lies within 5..40.
C14_DecisionDrawsCooldown ==
    impl = "modular" =>
        /\ ~crashed
        /\ DecisionTaken =>
              /\ bot.decision_cooldown >= Max(5, bot.reaction_time - 5)
              /\ bot.decision_cooldown <= Min(40, bot.reaction_time + 5)

\* C15: from one decision of the bot to the next, for every difficulty preset and every
\* health trajectory, aggression never decreases and caution never increases, and both
\* stay within [0, 1].
C15_AdaptationMonotonic ==
    /\ bot.aggression \in 0..100 /\ bot.caution \in 0..100
    /\ DecisionTaken =>
          /\ bot.aggression >= last_call.before.aggression
          /\ bot.caution <= last_call.before.caution

-----------------------------------------------------------------------------
(* Properties of the resolver in a match (Spec).  events[1] is what player1's swing did *)
(* to its opponent in the last check_collisions call, events[2] what the opponent's     *)
(* swing did to player1.                                                                *)

\* the attacker of events[i]
Attacker(i) == Fighters[i]

\* C16: when an unblocked hit lands, the defender's health goes down by the damage value
\* of the ATTACKER's archetype (floored at 0), for every pair of archetypes.
C16_HitDealsAttackersDamage ==
    \A i \in 1..2 :
        events[i].kind = "hit" =>
            events[i].health_after
                = Max(0, events[i].health_before - Params(Attacker(i)).damage)

\* C17: when the block test succeeds in a resolver call, the attacker's
\* already_hit_in_current_attack becomes true and the defender's health is unchanged by
\* that call; a swing the block test has succeeded against never damages the defender.
C17_BlockConsumesSwing ==
    \A i \in 1..2 :
        /\ events[i].kind = "blocked" =>
              /\ Attacker(i).already_hit_in_current_attack
              /\ events[i].health_after = events[i].health_before
        /\ swing[i].blocked => swing[i].hits = 0

\* C17, its case: the block test has succeeded against a swing that is still live and in
\* reach several resolver calls later
C17_BlockedSwingGoesOn ==
    \E i \in 1..2 :
        /\ swing[i].blocked /\ swing[i].in_reach
        /\ Attacker(i).attacking /\ Attacker(i).attack_animation <= 10
        /\ Attacker(i).already_hit_in_current_attack

\* C18: whenever the resolver reaches take_damage (attacker attacking, swing not yet
\* consumed, attack rectangle on the body, block test failed), take_damage reports that
\* damage was dealt: the outcome "no damage" after a failed block test never happens.
C18_TakeDamageAlwaysDeals ==
    \A i \in 1..2 : events[i].kind # "negated"

\* C19: check_collisions of the modular Game completes without raising in every reachable
\* state, the ticks on which a hit lands or a block succeeds included; a landed hit
\* leaves the attacker's already_hit_in_current_attack true.
C19_ResolverCompletes ==
    /\ ~crashed
    /\ \A i \in 1..2 :
          events[i].kind = "hit" => Attacker(i).already_hit_in_current_attack

-----------------------------------------------------------------------------
(* The winner of a match (SpecEndgame) *)

\* C21: whenever a winner is declared, the winning side's health is greater than 0 and
\* the losing side's health is 0, in both modes, the ticks in which both fighters land a
\* hit in the same resolver call included.
C21_WinnerStandsLoserDown ==
    /\ winner = WINNER_P1 => (player1.health > 0 /\ Opponent.health = 0)
    /\ winner \in {WINNER_BOT, WINNER_P2} => (Opponent.health > 0 /\ player1.health = 0)

-----------------------------------------------------------------------------
(* Two fighters passing each other (SpecSides), in two ways.                            *)
(*                                                                                      *)
(* Walking through: the stander has walked in from its start position and blocks; the   *)
(* walker has walked past it until its centre is just left of the stander's x, has      *)
(* turned, struck (with its right hand, the stander being to its right) and walks on to *)
(* the right, through the stander.  In player_vs_player the walker is player2 and the   *)
(* stander player1, which walks to the left; in player_vs_bot the walker is player1 and *)
(* the stander the bot, which has just decided to block.                                *)
(*                                                                                      *)
(* Closing in: player1 has walked in, blocks and walks on to the right; its opponent    *)
(* has walked in from the right until it is within two steps of player1's centre,       *)
(* strikes (with its left hand) and walks on to the left, across player1's centre line. *)
(* In player_vs_bot the opponent is a bot that has just decided to advance.             *)
(*                                                                                      *)
(* A blocking player1 may have pressed its attack key after its block key, which turns  *)
(* block_direction to the side opposite to the striking hand.  The movement keys are    *)
(* released at any moment; keys_used counts the key presses made from here on.          *)

\* the centre of a fighter of archetype bt that has walked k frames from start_x
WalkedCentre(start_x, bt, k, dir) == WalkedFrom(start_x, bt, k, dir) + 2 * (PARAMETERS[bt].width \div 2)

\* the frames a fighter walks from start_x to bring its centre as near to the left of the
\* target as its steps allow
ApproachSteps(start_x, bt, dir, target) ==
    CHOOSE k \in 0..400 :
        /\ WalkedCentre(start_x, bt, k, dir) <= target
        /\ WalkedCentre(start_x, bt, k + dir, dir) > target

\* block(opponent_x), and attack(opponent_x) after it if the attack key is pressed as well
BlockThenAttack(f, opponent_x, attack_too) ==
    IF attack_too THEN attack(block(f, opponent_x), opponent_x) ELSE block(f, opponent_x)

\* the fighters at the start of a walk through
WalkingThrough(bt1, bt2, s, attack_too) ==
    IF state = PVP
    THEN LET st == NewPlayer(WalkedFrom(START_X1, bt1, s, 1), bt1)
             k  == ApproachSteps(StartX2, bt2, -1, st.x)
             wk == NewPlayer(WalkedFrom(StartX2, bt2, k, -1), bt2)
         IN  /\ player1 = move_left(BlockThenAttack(st, wk.x, attack_too))
             /\ player2 = move_right(attack(wk, st.x))
             /\ bot = NoFighter
             /\ held = {"a", "right"}
    ELSE LET st == [NewBot(WalkedFrom(StartX2, bt2, s, -1), bt2, "medium")
                       EXCEPT !.last_action = "wait"]
             k  == ApproachSteps(START_X1, bt1, 1, st.x)
             wk == NewPlayer(WalkedFrom(START_X1, bt1, k, 1), bt1)
         IN  /\ ~attack_too
             /\ player1 = move_right(attack(wk, st.x))
             /\ player2 = NoFighter
             /\ \E d \in make_decision(st, wk, impl) : d.bot.blocking /\ bot = d.bot
             /\ held = {"d"}

\* the fighters at the start of a closing in
ClosingIn(bt1, bt2, s, attack_too) ==
    LET p1 == NewPlayer(WalkedFrom(START_X1, bt1, s, 1), bt1)
        \* the frames the other walks to the left until one more step would bring its x
        \* to the left of player1's centre
        k  == CHOOSE n \in 0..400 :
                 /\ WalkedFrom(StartX2, bt2, n, -1) >= CenterX2(p1)
                 /\ WalkedFrom(StartX2, bt2, n + 1, -1) < CenterX2(p1)
        x2 == WalkedFrom(StartX2, bt2, k, -1)
    IN  /\ player1 = move_right(BlockThenAttack(p1, x2, attack_too))
        /\ held = IF state = PVP THEN {"d", "left"} ELSE {"d"}
        /\ IF state = PVP
           THEN /\ player2 = move_left(attack(NewPlayer(x2, bt2), p1.x))
                /\ bot = NoFighter
           ELSE /\ player2 = NoFighter
                /\ \E d \in make_decision([NewBot(x2, bt2, "medium") EXCEPT !.last_action = "wait"],
                                          p1, impl) :
                      d.bot.moving_left /\ bot = d.bot

InitSides ==
    /\ impl \in Impls
    /\ state \in {PVP, PVB}
    /\ \E bt1 \in BodyTypes, bt2 \in BodyTypes, s \in {40}, attack_too \in BOOLEAN :
          WalkingThrough(bt1, bt2, s, attack_too) \/ ClosingIn(bt1, bt2, s, attack_too)
    /\ battle_finished = FALSE
    /\ winner = None
    /\ round_time = 0
    /\ crashed = FALSE
    /\ keys_used = 0
    /\ events = <<NoEvent, NoEvent>>
    /\ swing = <<NewSwing, NewSwing>>
    /\ since_attack = 0
    /\ last_call = None
    /\ hits_landed = 0
    /\ menu = NewMenu

\* a frame of the match within the frames explored, or a movement key released
NextSides ==
    \/ (round_time < MaxSideTicks /\ ~battle_finished /\ UpdateGame)
    \/ \E key \in MoveKeys1 \cup MoveKeys2 : KeyUp(key)

SpecSides == InitSides /\ [][NextSides]_vars

\* the defender of events[i]
Defender(i) == Fighters[3 - i]

\* In SpecSides the states with round_time > 0 show the fighters as the resolver of the last
\* frame saw them: only key releases come between the frames, and they change neither x nor
\* any block or attack field.

\* C22: in the game's tick loop (each fighter's update called with the opponent's x, then
\* the bot decision, then the resolver), the block test never succeeds against a
\* right-hand strike: at resolver time a blocking defender with block_direction = right
\* always has attacker.x >= defender.x, for every archetype width and speed.
C22_NoBlockAgainstRightHand ==
    round_time > 0 =>
        \A i \in 1..2 :
            /\ (Defender(i).blocking /\ Defender(i).block_direction = "right")
                   => Attacker(i).x >= Defender(i).x
            /\ events[i].kind = "blocked" => ~Attacker(i).attacking_with_right

\* C22, its case: a right-hand strike has met a defender blocking to the right, in reach,
\* and the block test has failed
C22_RightHandMeetsRightBlock ==
    \E i \in 1..2 :
        /\ events[i].wrong_side
        /\ Attacker(i).attacking /\ Attacker(i).attacking_with_right
        /\ Defender(i).blocking /\ Defender(i).block_direction = "right"

-----------------------------------------------------------------------------
(* The timers of a swing (SpecTimers).  since_attack is the number of update() calls *)
(* since the last successful attack(), 30 standing for "30 or more, or never".       *)

\* C23: after a successful attack() followed only by update() ticks, attacking is true
\* after each of the first 14 updates and false after the 15th, attack_cooldown reaches 0
\* exactly at the 30th update, and attack() succeeds again after 30 updates but after no
\* fewer; the block window and block cooldown run independently of these counters.
\* Over every call: the attack counters afterwards are those of since_attack updates; an
\* attack() call begins a swing exactly when 30 updates have passed; an update() takes one
\* off block_cooldown and ends the block at 0, an attack() leaves the block alone, and a
\* block() succeeds whenever block_cooldown is 0 and leaves the attack counters alone.
C23_SwingTimers ==
    [][/\ player1'.attacking <=> since_attack' < ATTACK_ANIMATION
       /\ player1'.attack_animation = Max(0, ATTACK_ANIMATION - since_attack')
       /\ player1'.attack_cooldown = ATTACK_COOLDOWN - since_attack'
       /\ last_call'.name = "attack" =>
             since_attack' = (IF since_attack = ATTACK_COOLDOWN THEN 0 ELSE since_attack)
       /\ last_call'.name = "update" =>
             /\ player1'.block_cooldown = Max(0, player1.block_cooldown - 1)
             /\ player1'.blocking <=> player1'.block_cooldown > 0
       /\ last_call'.name = "attack" =>
             /\ player1'.block_cooldown = player1.block_cooldown
             /\ player1'.blocking = player1.blocking
       /\ last_call'.name = "block" =>
             /\ player1.block_cooldown = 0 =>
                   (player1'.blocking /\ player1'.block_cooldown = BLOCK_COOLDOWN)
             /\ player1'.attacking = player1.attacking
             /\ player1'.attack_animation = player1.attack_animation
             /\ player1'.attack_cooldown = player1.attack_cooldown]_vars

\* C23, its case: the 15th update() after a successful attack() has just ended the swing
\* of a fighter that began to block while it was swinging
C23_FifteenthUpdate ==
    /\ last_call.name = "update"
    /\ since_attack = ATTACK_ANIMATION
    /\ ~player1.attacking /\ player1.attack_cooldown = ATTACK_COOLDOWN - ATTACK_ANIMATION
    /\ player1.blocking /\ player1.block_cooldown > BLOCK_COOLDOWN - ATTACK_ANIMATION

-----------------------------------------------------------------------------
(* The end of a swing in a match (Spec) *)

\* C24: the update() call that brings attack_animation from 1 to 0 sets attacking to false
\* and already_hit_in_current_attack to false in that same call; no reachable state after
\* an update has attack_animation = 0 with attacking or already_hit_in_current_attack
\* still true.
C24_SwingEndsClean ==
    \A i \in 1..2 :
        Fighters[i].attack_animation = 0 =>
            /\ ~Fighters[i].attacking
            /\ ~Fighters[i].already_hit_in_current_attack

\* C24, its case: the 15th update() of a swing that had landed its hit has just brought
\* attack_animation to 0
C24_HitSwingJustEnded ==
    \E i \in 1..2 :
        /\ swing[i].hits = 1
        /\ Fighters[i].attack_animation = 0
        /\ Fighters[i].attack_cooldown = ATTACK_COOLDOWN - ATTACK_ANIMATION
        /\ ~Fighters[i].already_hit_in_current_attack

-----------------------------------------------------------------------------
(* The bot's flags after a decision, in a match (Spec).  A frame that finds the bot with  *)
(* decision_cooldown = 0 takes a decision; the resolver that follows it in the frame      *)
(* changes none of the fields named here.                                                 *)

\* C25: immediately after a bot decision (make_decision called with decision_cooldown = 0)
\* the bot's flags reflect only the action chosen in that call: if attacking is true the
\* attack was started in this call (attack_animation = 15 and attack_cooldown = 30), if
\* blocking is true the block was started in this call (block_cooldown = 40), and any
\* movement flag set was set in this call.
C25_FlagsOfThisDecisionOnly ==
    [][(state = PVB /\ round_time' = round_time + 1 /\ bot.decision_cooldown = 0) =>
          /\ bot'.attacking =>
                /\ bot'.last_action = "attack"
                /\ bot'.attack_animation = ATTACK_ANIMATION
                /\ bot'.attack_cooldown = ATTACK_COOLDOWN
          /\ bot'.blocking =>
                /\ bot'.last_action \in {"block", "prepare"}
                /\ bot'.block_cooldown = BLOCK_COOLDOWN
          /\ (bot'.moving_left \/ bot'.moving_right) =>
                /\ bot'.last_action \in {"advance", "retreat", "positioning"}
                /\ bot'.moving_left # bot'.moving_right]_vars

\* C25, its case: the bot's second decision of the match has been taken in mid-swing; it
\* chose to attack again, which the running attack cooldown refused, and the bot is left
\* without the attacking flag of its earlier swing
C25_DecidedInMidSwing ==
    /\ state = PVB
    /\ round_time > 1
    /\ bot.decision_cooldown \in Ends(MonolithicCooldowns)
    /\ bot.last_action = "attack"
    /\ ~bot.attacking /\ bot.attack_animation > 0 /\ bot.attack_cooldown < ATTACK_COOLDOWN

-----------------------------------------------------------------------------
(* After the end of a match (SpecEndgame) *)

\* C26: once battle_finished is true, further update_game ticks and in-game key-down and
\* key-up events change no field of either fighter (health, position, flags, timers) and
\* do not change winner, until return_to_menu is executed.
C26_FinishedMatchIsFrozen ==
    [][battle_finished =>
          /\ player1' = player1 /\ player2' = player2 /\ bot' = bot
          /\ winner' = winner /\ battle_finished']_vars

\* C26, its case: a movement key has been pressed after the end of the match and has not
\* set the fighter moving
C26_KeyPressedAfterTheEnd ==
    /\ battle_finished
    /\ "d" \in held /\ keys_used = 1
    /\ ~player1.moving_right

-----------------------------------------------------------------------------
(* The side a fighter turns to (SpecFacing): attack, block and update called directly on *)
(* a fighter of every archetype, standing or walking, the opponent_x handed in lying on  *)
(* either side of every centre line the call can compare it with.  last_call holds the   *)
(* last call, its opponent_x (<<>> for none), the fighter before it and the calls made.  *)

\* the opponent_x values handed to a call, in half pixels: just left of the fighter's centre
\* and on it, for the centre as it is, as one step to the left and as one step to the right move it
NearXs(f) ==
    {CenterX2(f) + d : d \in {-Params(f).speed2 - 1, -Params(f).speed2, -1, 0,
                              Params(f).speed2 - 1, Params(f).speed2}}

\* the fighter after n calls of update(ground_y, screen_width), one call at a time (the
\* test on g is always true: block_cooldown never goes below 0)
RECURSIVE Updated(_, _)
Updated(f, n) ==
    IF n = 0 THEN f
    ELSE LET g == update(f, screen_width, <<>>)
         IN  IF g.block_cooldown >= 0 THEN Updated(g, n - 1) ELSE g

\* A fighter at player1's start position: as constructed, or one update() before the end of
\* a block; standing, or walking to either side.
InitFacing ==
    /\ impl \in Impls
    /\ state = API
    /\ \E bt \in BodyTypes, late \in BOOLEAN, walking \in {"no", "left", "right"} :
          LET base == NewPlayer(2 * START_X1, bt)
              f    == IF late THEN Updated(block(base, 2 * StartX2), BLOCK_COOLDOWN - 1) ELSE base
              g    == CASE walking = "left" -> move_left(f)
                        [] walking = "right" -> move_right(f)
                        [] OTHER -> f
          IN  /\ player1 = g
              /\ last_call = [name |-> None, opp |-> <<>>, before |-> g, calls |-> 0]
    /\ player2 = NoFighter
    /\ since_attack = ATTACK_COOLDOWN
    /\ NoMatch

\* attack(opponent_x)
FacingAttack(opponent_x) ==
    /\ state = API
    /\ last_call.calls < MaxFacingCalls
    /\ player1' = attack(player1, opponent_x)
    /\ last_call' = [name |-> "attack", opp |-> <<opponent_x>>, before |-> player1,
                     calls |-> last_call.calls + 1]
    /\ UNCHANGED since_attack /\ ApiFrame

\* block(opponent_x)
FacingBlock(opponent_x) ==
    /\ state = API
    /\ last_call.calls < MaxFacingCalls
    /\ player1' = block(player1, opponent_x)
    /\ last_call' = [name |-> "block", opp |-> <<opponent_x>>, before |-> player1,
                     calls |-> last_call.calls + 1]
    /\ UNCHANGED since_attack /\ ApiFrame

\* update(ground_y, screen_width, opponent_x), opp being <<>> for no opponent_x
FacingUpdate(opp) ==
    /\ state = API
    /\ last_call.calls < MaxFacingCalls
    /\ player1' = update(player1, screen_width, opp)
    /\ last_call' = [name |-> "update", opp |-> opp, before |-> player1,
                     calls |-> last_call.calls + 1]
    /\ UNCHANGED since_attack /\ ApiFrame

NextFacing ==
    \/ \E ox \in NearXs(player1) : FacingAttack(ox)
    \/ \E ox \in NearXs(player1) : FacingBlock(ox)
    \/ \E opp \in {<<>>} \cup {<<ox>> : ox \in NearXs(player1)} : FacingUpdate(opp)

SpecFacing == InitFacing /\ [][NextFacing]_vars

\* C27: block() called while block_cooldown > 0 is a no-op: blocking, block_direction and
\* block_cooldown keep their values; called with block_cooldown = 0 it sets blocking = true,
\* block_cooldown = 40 and block_direction = left exactly when opponent_x is less than the
\* fighter's horizontal centre (x + width // 2), otherwise right.
C27_BlockGuardedByCooldown ==
    last_call.name = "block" =>
        LET before == last_call.before
            centre == before.x + 2 * (PARAMETERS[before.body_type].width \div 2)
        IN  IF before.block_cooldown > 0
            THEN /\ player1.blocking = before.blocking
                 /\ player1.block_direction = before.block_direction
                 /\ player1.block_cooldown = before.block_cooldown
            ELSE /\ player1.blocking
                 /\ player1.block_cooldown = 40
                 /\ player1.block_direction = (IF last_call.opp[1] < centre THEN "left" ELSE "right")

\* C27, its case: block() has just been called inside the block cooldown, with the opponent
\* on the other side than the one the fighter blocks
C27_BlockCalledInsideCooldown ==
    /\ last_call.name = "block"
    /\ last_call.before.block_cooldown > 0
    /\ player1.block_direction = "left"
    /\ last_call.opp[1] >= CenterX2(player1)

\* C28: a successful attack(opponent_x) sets attacking_with_right to true exactly when
\* opponent_x >= x + width // 2 and to false otherwise, and sets block_direction to the
\* opposite side of the chosen hand (left for a right-hand attack, right for a left-hand
\* attack), also when the fighter is currently blocking.
C28_HandAndOppositeBlockSide ==
    (last_call.name = "attack" /\ last_call.before.attack_cooldown <= 0) =>
        LET before == last_call.before
            centre == before.x + 2 * (PARAMETERS[before.body_type].width \div 2)
        IN  /\ player1.attacking /\ player1.attack_animation = 15
            /\ player1.attacking_with_right <=> last_call.opp[1] >= centre
            /\ player1.block_direction = (IF player1.attacking_with_right THEN "left" ELSE "right")

\* C28, its case: a fighter blocking to the right has struck with its right hand, and the
\* attack has turned its block to the left
C28_AttackTurnsABlock ==
    /\ last_call.name = "attack" /\ last_call.before.attack_cooldown <= 0
    /\ last_call.before.blocking /\ last_call.before.block_direction = "right"
    /\ player1.blocking /\ player1.attacking_with_right /\ player1.block_direction = "left"

\* C29: after every update(ground_y, arena_width, opponent_x) call with an opponent_x given,
\* a fighter that is still blocking has block_direction = left exactly when
\* opponent_x < x + width // 2 (x being the position after this update's movement) and right
\* otherwise; when opponent_x is absent or the fighter is not blocking, update leaves
\* block_direction unchanged.
C29_UpdateFacesTheOpponent ==
    last_call.name = "update" =>
        LET centre == player1.x + 2 * (PARAMETERS[player1.body_type].width \div 2)
        IN  IF last_call.opp # <<>> /\ player1.blocking
            THEN player1.block_direction = (IF last_call.opp[1] < centre THEN "left" ELSE "right")
            ELSE player1.block_direction = last_call.before.block_direction

\* C29, its case: a blocking fighter has walked a step to the right in this update, across
\* the opponent_x it was given, and blocks to the left
C29_WalkedAcrossTheOpponent ==
    /\ last_call.name = "update" /\ last_call.opp # <<>>
    /\ player1.blocking /\ player1.x > last_call.before.x
    /\ last_call.opp[1] >= CenterX2(last_call.before)
    /\ player1.block_direction = "left"

-----------------------------------------------------------------------------
(* The direction of the bot's movement decisions (SpecDecide; neither the bot nor the *)
(* player changes place there)                                                        *)

\* C30: whenever a bot decision records last_action = "retreat", the movement flag it sets
\* points away from the opponent (moving_right when the opponent is to the bot's left,
\* moving_left when the opponent is to its right); whenever it records "advance", the flag
\* points toward the opponent.  (Stated of the decisions that complete.)
C30_RetreatAwayAdvanceToward ==
    ~crashed =>
        /\ (bot.last_action = "retreat" /\ player1.x < bot.x) => (bot.moving_right /\ ~bot.moving_left)
        /\ (bot.last_action = "retreat" /\ player1.x > bot.x) => (bot.moving_left /\ ~bot.moving_right)
        /\ (bot.last_action = "advance" /\ player1.x < bot.x) => (bot.moving_left /\ ~bot.moving_right)
        /\ (bot.last_action = "advance" /\ player1.x > bot.x) => (bot.moving_right /\ ~bot.moving_left)

-----------------------------------------------------------------------------
(* The distance bands of the bot's policy (SpecBands): make_decision called on a bot of  *)
(* any difficulty that stands at the edge of a band, half a pixel inside it or on it,    *)
(* while take_damage calls bring its health, and with it aggression and caution, down.   *)

\* the frames an athletic player and a ninja bot have walked towards each other from their
\* start positions when they stand d half pixels apart
StepsApart(d) ==
    CHOOSE st \in (0..100) \X (0..100) :
        WalkedFrom(StartX2, "ninja", st[2], -1) - WalkedFrom(START_X1, "athletic", st[1], 1) = d

InitBands ==
    /\ impl \in Impls
    /\ state = API
    \* the distances, in half pixels: the two sides of 80, 100, 150 and 250
    /\ \E d \in {2 * 80 - 1, 2 * 80, 2 * 100 - 1, 2 * 100, 2 * 150 - 1, 2 * 150,
                 2 * 250 - 1, 2 * 250},
          difficulty \in Difficulties :
          /\ impl = "monolithic" => difficulty = "medium"
          /\ player1 = NewPlayer(WalkedFrom(START_X1, "athletic", StepsApart(d)[1], 1), "athletic")
          /\ bot = NewBot(WalkedFrom(StartX2, "ninja", StepsApart(d)[2], -1), "ninja", difficulty)
    /\ player2 = NoFighter
    /\ battle_finished = FALSE
    /\ winner = None
    /\ round_time = 0
    /\ crashed = FALSE
    /\ held = {}
    /\ keys_used = 0
    /\ events = <<NoEvent, NoEvent>>
    /\ swing = <<NewSwing, NewSwing>>
    /\ since_attack = 0
    /\ last_call = NoCalls
    /\ hits_landed = 0
    /\ menu = NewMenu

SpecBands == InitBands /\ [][NextDecide]_vars

\* C31: in the four-band bot policy, a decision starts an attack only when the distance
\* |bot.x - opponent.x| is below 150, and at distance 250 or more a decision starts neither
\* an attack nor a block (only advance or wait), for every random draw and every
\* aggression and caution value.
C31_AttackOnlyNearNothingFar ==
    DecisionTaken =>
        /\ (bot.attacking \/ bot.last_action = "attack") => Abs(bot.x - player1.x) < 2 * 150
        /\ Abs(bot.x - player1.x) >= 2 * 250 =>
              /\ ~bot.attacking /\ ~bot.blocking
              /\ bot.last_action \in {"advance", "wait"}

\* C31, its case: a bot worn down below 30 % of its health, its aggression raised by an
\* earlier decision, has decided at a distance of exactly 150 and has not attacked
C31_DecidedAtTheBandEdge ==
    /\ DecisionTaken
    /\ impl = "modular"
    /\ Abs(bot.x - player1.x) = 2 * 150
    /\ 10 * bot.health < 3 * bot.max_health
    /\ last_call.before.aggression > difficulty_settings[bot.difficulty].aggression
    /\ bot.last_action = "prepare" /\ bot.blocking

-----------------------------------------------------------------------------
(* The bot's wait for its next decision (SpecPatience): the bot's part of a frame,       *)
(* Bot.update followed by make_decision as update_pvb_mode calls them, repeated for as   *)
(* long as the match is in progress, on a bot of the presets medium, hard and insane.    *)
(* last_call holds the last call, the consecutive ticks made without a decision, and the *)
(* bot before the call.                                                                  *)

InitPatience ==
    /\ impl \in Impls
    /\ state = API
    /\ player1 = StandingPlayer
    /\ player2 = NoFighter
    /\ \E steps \in BotSteps, difficulty \in {"medium", "hard", "insane"} :
          /\ impl = "monolithic" => difficulty = "medium"
          /\ bot = WalkedBot(steps, difficulty)
          /\ last_call = [name |-> None, waited |-> 0, before |-> bot]
    /\ battle_finished = FALSE
    /\ winner = None
    /\ round_time = 0
    /\ crashed = FALSE
    /\ held = {}
    /\ keys_used = 0
    /\ events = <<NoEvent, NoEvent>>
    /\ swing = <<NewSwing, NewSwing>>
    /\ since_attack = 0
    /\ hits_landed = 0
    /\ menu = NewMenu

\* bot.update(ground_y, screen_width, player1.x); bot.make_decision(player1, screen_width)
PatienceTick ==
    /\ state = API
    /\ ~crashed
    /\ \E bu \in bot_update(bot, screen_width, <<player1.x>>, impl) :
       \E d \in make_decision(bu, player1, impl) :
          /\ bot' = d.bot
          /\ crashed' = d.raised
          /\ last_call' = [name |-> "tick",
                           waited |-> IF bu.decision_cooldown > 0
                                      THEN Min(MaxWaited, last_call.waited + 1)
                                      ELSE 0,
                           before |-> bot]
    /\ BotFrame

SpecPatience == InitPatience /\ [][PatienceTick]_vars

\* the game loop runs a frame after a frame for as long as the match is in progress
FairSpecPatience == SpecPatience /\ WF_vars(PatienceTick)

(* C32: while the match is in progress the bot always eventually takes a fresh decision: *)
(* a make_decision call that finds decision_cooldown > 0 lowers it by exactly 1 and      *)
(* changes nothing else, so at most 30 consecutive ticks pass without a decision and the *)
(* decision is taken on the 31st at the latest (presets medium, hard and insane, and the *)
(* monolithic bot).                                                                      *)
C32_DecisionWithin31Ticks ==
    /\ [](/\ last_call.waited <= 30
          /\ last_call.name = "tick" /\ last_call.before.decision_cooldown > 0
                => /\ bot.decision_cooldown = last_call.before.decision_cooldown - 1
                   /\ bot.last_action = last_call.before.last_action
          /\ ~crashed)
    /\ []<>(last_call.name = "tick" /\ last_call.waited = 0)

\* the bot drew the longest cooldown, 30, and has counted it down in 30 ticks without a
\* decision: the 31st tick decides
C32_ThirtyTicksWaited ==
    /\ last_call.name = "tick"
    /\ last_call.waited = 30
    /\ last_call.before.decision_cooldown = 1
    /\ bot.decision_cooldown = 0
    /\ bot.difficulty = "medium"

-----------------------------------------------------------------------------
(* The screens of the modular Game (SpecMenu): the event handlers of game_state.py from  *)
(* the main menu through the character selection into a match and back, with the frames  *)
(* and key handlers of the match itself.  A mouse click is given by the rectangle of the *)
(* current screen it lands in.  The colour selections, the settings screen's own         *)
(* selection and the window mode are not part of the model: a handler that changes only  *)
(* those changes nothing here.  last_call holds the route: the screen the current one    *)
(* was entered from, and whether CHARACTER_SELECT_P2 was shown since the main menu.       *)

\* the values of GameState besides PLAYER_VS_PLAYER and PLAYER_VS_BOT
GameState == [MENU |-> "menu", CHARACTER_SELECT_P1 |-> "character_select_p1",
              CHARACTER_SELECT_P2 |-> "character_select_p2", SETTINGS |-> "settings",
              CONTROLS |-> "controls", EXIT |-> "exit"]

\* the route after the screen changes to new_state
Route(new_state) ==
    IF new_state = state THEN last_call
    ELSE [name |-> "route",
          entered_from |-> state,
          via_p2 |-> IF new_state = GameState.MENU THEN FALSE
                     ELSE last_call.via_p2 \/ new_state = GameState.CHARACTER_SELECT_P2]

\* a handler that only sets Game.state and the selections
Goto(new_state, new_menu) ==
    /\ state' = new_state
    /\ menu' = new_menu
    /\ last_call' = Route(new_state)
    /\ UNCHANGED <<impl, player1, player2, bot, battle_finished, winner, round_time, crashed,
                   held, keys_used, events, swing, since_attack, hits_landed>>

\* Game.reset_game_state, with the bookkeeping of the new match
reset_game_state ==
    /\ winner' = None
    /\ round_time' = 0
    /\ battle_finished' = FALSE
    /\ keys_used' = 0
    /\ events' = <<NoEvent, NoEvent>>
    /\ swing' = <<NewSwing, NewSwing>>
    /\ since_attack' = 0
    /\ hits_landed' = 0

\* Game.start_player_vs_bot: player1 of the selected type, a bot of a random type
start_player_vs_bot(m) ==
    /\ state' = PVB
    /\ menu' = m
    /\ last_call' = Route(PVB)
    /\ player1' = NewPlayer(2 * START_X1, m.selected_body_type_p1)
    /\ \E bot_type \in BodyTypes : bot' = NewBot(2 * StartX2, bot_type, "medium")
    /\ reset_game_state
    /\ UNCHANGED <<impl, player2, crashed, held>>

\* Game.start_player_vs_player: both players of their selected types
start_player_vs_player(m) ==
    /\ state' = PVP
    /\ menu' = m
    /\ last_call' = Route(PVP)
    /\ player1' = NewPlayer(2 * START_X1, m.selected_body_type_p1)
    /\ player2' = NewPlayer(2 * StartX2, m.selected_body_type_p2)
    /\ reset_game_state
    /\ UNCHANGED <<impl, bot, crashed, held>>

\* a faulty variant of return_to_menu that drops the fighters and leaves Game.state alone
ReturnToMenuKeepingState ==
    /\ winner' = None
    /\ battle_finished' = FALSE
    /\ round_time' = 0
    /\ player1' = NoFighter
    /\ player2' = NoFighter
    /\ bot' = NoFighter
    /\ UNCHANGED <<impl, state, crashed, held, keys_used, events, swing, since_attack,
                   last_call, hits_landed, menu>>

\* Game.return_to_menu
return_to_menu ==
    /\ state' = GameState.MENU
    /\ winner' = None
    /\ battle_finished' = FALSE
    /\ round_time' = 0
    /\ player1' = NoFighter
    /\ player2' = NoFighter
    /\ bot' = NoFighter
    /\ last_call' = Route(GameState.MENU)
    /\ UNCHANGED <<impl, crashed, held, keys_used, events, swing, since_attack, hits_landed,
                   menu>>

\* Game.handle_escape_key
handle_escape_key ==
    CASE state = GameState.MENU -> Goto(GameState.EXIT, menu)
      [] state \in {GameState.SETTINGS, GameState.CONTROLS} -> Goto(GameState.MENU, menu)
      [] state \in {GameState.CHARACTER_SELECT_P1, GameState.CHARACTER_SELECT_P2} ->
            Goto(GameState.MENU, menu)
      [] state \in {PVP, PVB} -> return_to_menu
      [] OTHER -> FALSE

\* Game.execute_menu_action on the selections m
execute_menu_action(m) ==
    CASE m.menu_selection \in {0, 1} ->
            Goto(GameState.CHARACTER_SELECT_P1, [m EXCEPT !.player1_selection = 0])
      [] m.menu_selection = 2 -> Goto(GameState.CONTROLS, m)
      [] m.menu_selection = 3 -> Goto(GameState.SETTINGS, m)
      [] OTHER -> Goto(GameState.EXIT, m)

\* Game.confirm_p1_selection
confirm_p1_selection ==
    LET m == [menu EXCEPT !.selected_body_type_p1 = body_types[menu.player1_selection + 1]]
    IN  IF m.menu_selection = 0
        THEN start_player_vs_bot(m)
        ELSE Goto(GameState.CHARACTER_SELECT_P2, [m EXCEPT !.player2_selection = 0])

\* Game.confirm_p2_selection
confirm_p2_selection ==
    start_player_vs_player(
        [menu EXCEPT !.selected_body_type_p2 = body_types[menu.player2_selection + 1]])

\* player1_selection or player2_selection moved by `step` with an arrow key or a click on an
\* arrow, within the selections explored
Select(field, step) ==
    LET selection == (menu[field] + step) % Len(body_types)
    IN  /\ selection \in 0..MaxSelection
        /\ Goto(state, [menu EXCEPT ![field] = selection])

\* Game.handle_keydown: ESC first, then the handler of the screen.  After ESC the screen is
\* MENU or EXIT, and no key test of handle_menu_keydown matches ESC.
HandleKeydown(key) ==
    LET \* Game.handle_menu_keydown
        handle_menu_keydown ==
            CASE key \in {"up", "w"} -> Goto(state, [menu EXCEPT !.menu_selection = (@ - 1) % 5])
              [] key \in {"down", "s"} -> Goto(state, [menu EXCEPT !.menu_selection = (@ + 1) % 5])
              [] key \in {"return", "space"} -> execute_menu_action(menu)
              [] OTHER -> FALSE
        \* Game.handle_character_select_p1_keydown
        handle_character_select_p1_keydown ==
            CASE key \in {"left", "a"} -> Select("player1_selection", -1)
              [] key \in {"right", "d"} -> Select("player1_selection", 1)
              [] key \in {"return", "space"} -> confirm_p1_selection
              [] OTHER -> FALSE
        \* Game.handle_character_select_p2_keydown
        handle_character_select_p2_keydown ==
            CASE key \in {"left", "a"} -> Select("player2_selection", -1)
              [] key \in {"right", "d"} -> Select("player2_selection", 1)
              [] key \in {"return", "space"} -> confirm_p2_selection
              [] OTHER -> FALSE
        \* Game.handle_controls_keydown
        handle_controls_keydown ==
            IF key \in {"return", "space"} THEN Goto(GameState.MENU, menu) ELSE FALSE
    IN  /\ ~crashed
        /\ impl = "modular"
        /\ IF key = "escape" THEN handle_escape_key
           ELSE CASE state = GameState.MENU -> handle_menu_keydown
                  [] state = GameState.CHARACTER_SELECT_P1 -> handle_character_select_p1_keydown
                  [] state = GameState.CHARACTER_SELECT_P2 -> handle_character_select_p2_keydown
                  [] state = GameState.CONTROLS -> handle_controls_keydown
                  [] state \in {PVP, PVB} -> Press(key)
                  [] OTHER -> FALSE

\* Game.handle_keyup: outside a match the key is released and nothing else happens
HandleKeyup(key) ==
    /\ impl = "modular"
    /\ IF state \in {PVP, PVB} THEN KeyUp(key)
       ELSE /\ state # GameState.EXIT
            /\ key \in held
            /\ held' = held \ {key}
            /\ UNCHANGED <<impl, state, player1, player2, bot, battle_finished, winner,
                           round_time, crashed, keys_used, events, swing, since_attack,
                           last_call, hits_landed, menu>>

\* Game.handle_mouse_click: the click lands in the rectangle `target` of the screen shown
HandleMouseClick(target) ==
    LET \* Game.handle_menu_mouse_click: the click selects the item and runs it
        handle_menu_mouse_click ==
            IF target[1] = "item"
            THEN execute_menu_action([menu EXCEPT !.menu_selection = target[2]])
            ELSE FALSE
        \* Game.handle_character_select_p1_mouse_click
        handle_character_select_p1_mouse_click ==
            CASE target[1] = "left_arrow" -> Select("player1_selection", -1)
              [] target[1] = "right_arrow" -> Select("player1_selection", 1)
              [] target[1] = "confirm" -> confirm_p1_selection
              [] target[1] = "back" -> Goto(GameState.MENU, menu)
              [] OTHER -> FALSE
        \* Game.handle_character_select_p2_mouse_click
        handle_character_select_p2_mouse_click ==
            CASE target[1] = "left_arrow" -> Select("player2_selection", -1)
              [] target[1] = "right_arrow" -> Select("player2_selection", 1)
              [] target[1] = "confirm" -> confirm_p2_selection
              [] target[1] = "back" -> Goto(GameState.CHARACTER_SELECT_P1, menu)
              [] OTHER -> FALSE
        \* Game.handle_controls_mouse_click
        handle_controls_mouse_click ==
            IF target[1] = "back" THEN Goto(GameState.MENU, menu) ELSE FALSE
        \* Game.handle_game_mouse_click: the return button of the winner screen
        handle_game_mouse_click ==
            IF battle_finished /\ winner # None /\ target[1] = "return"
            THEN return_to_menu ELSE FALSE
    IN  /\ ~crashed
        /\ impl = "modular"
        /\ CASE state = GameState.MENU -> handle_menu_mouse_click
             [] state = GameState.CHARACTER_SELECT_P1 -> handle_character_select_p1_mouse_click
             [] state = GameState.CHARACTER_SELECT_P2 -> handle_character_select_p2_mouse_click
             [] state = GameState.CONTROLS -> handle_controls_mouse_click
             [] state \in {PVP, PVB} -> handle_game_mouse_click
             [] OTHER -> FALSE

\* Game.handle_events, pygame.QUIT
Quit ==
    /\ ~crashed
    /\ impl = "modular"
    /\ state # GameState.EXIT
    /\ Goto(GameState.EXIT, menu)

\* Game.update: a frame of the match, within the frames explored
MenuTick == impl = "modular" /\ round_time < MaxMenuTicks /\ UpdateGame

\* a new Game: the main menu, no fighters
InitMenu ==
    /\ impl = "modular"
    /\ state = GameState.MENU
    /\ player1 = NoFighter
    /\ player2 = NoFighter
    /\ bot = NoFighter
    /\ battle_finished = FALSE
    /\ winner = None
    /\ round_time = 0
    /\ crashed = FALSE
    /\ held = {}
    /\ keys_used = 0
    /\ events = <<NoEvent, NoEvent>>
    /\ swing = <<NewSwing, NewSwing>>
    /\ since_attack = 0
    /\ last_call = [name |-> "route", entered_from |-> None, via_p2 |-> FALSE]
    /\ hits_landed = 0
    /\ menu = NewMenu

\* the events of Game.handle_events and the frame of Game.update, as Game.run takes them
NextMenu ==
    \/ \E key \in {"escape", "return", "space", "up", "down", "left", "right", "a", "d", "w", "s",
                   "lalt", "ralt"} : HandleKeydown(key)
    \/ \E key \in MoveKeys1 \cup MoveKeys2 : HandleKeyup(key)
    \/ \E target \in {<<"item", i>> : i \in 0..4}
                        \cup {<<t, 0>> : t \in {"left_arrow", "right_arrow", "confirm", "back",
                                                "return"}} : HandleMouseClick(target)
    \/ Quit
    \/ MenuTick

SpecMenu == InitMenu /\ [][NextMenu]_vars

(* C33: Game.state is PLAYER_VS_BOT only while player1 and bot both exist and            *)
(* PLAYER_VS_PLAYER only while player1 and player2 both exist, whatever menu, character  *)
(* selection, in-game, mouse and ESC events came before; bot mode is entered from        *)
(* CHARACTER_SELECT_P1 without CHARACTER_SELECT_P2 on the way from the main menu, and    *)
(* player-vs-player mode is entered from CHARACTER_SELECT_P2.                             *)
C33_ModeHasItsFighters ==
    /\ state = PVB => /\ player1 # NoFighter
                      /\ bot # NoFighter
                      /\ last_call.entered_from = GameState.CHARACTER_SELECT_P1
                      /\ ~last_call.via_p2
    /\ state = PVP => /\ player1 # NoFighter
                      /\ player2 # NoFighter
                      /\ last_call.entered_from = GameState.CHARACTER_SELECT_P2
                      /\ last_call.via_p2

\* a bot match is running after a player-vs-player match was started and left before it
C33_BotMatchAfterAPlayerMatch ==
    /\ state = PVB
    /\ round_time > 0
    /\ menu.selected_body_type_p2 = "lean"
    /\ menu.selected_body_type_p1 = "lean"
    /\ held # {}

-----------------------------------------------------------------------------
(* The two Player classes side by side (SpecTwins): the Player of duelist_game.py,       *)
(* translated on its own below with the attributes set_body_parameters gives it, and the *)
(* Player of player.py, driven by the same calls from the same construction.  player1    *)
(* holds the modular Player with its y, player2 the monolithic one; last_call holds the  *)
(* last call and the number of calls made.                                               *)

\* Player.set_body_parameters (duelist_game.py): the attributes of each body type (speed in half pixels)
SetBodyParameters(bt) ==
    CASE bt = "athletic" -> [width |-> 52, height |-> 130, speed2 |-> 11, health |-> 100, max_health |-> 100]
      [] bt = "lean"     -> [width |-> 42, height |-> 140, speed2 |-> 12, health |-> 90, max_health |-> 90]
      [] bt = "heavy"    -> [width |-> 65, height |-> 125, speed2 |-> 9, health |-> 120, max_health |-> 120]
      [] bt = "sumo"     -> [width |-> 75, height |-> 115, speed2 |-> 7, health |-> 150, max_health |-> 150]
      [] bt = "ninja"    -> [width |-> 45, height |-> 135, speed2 |-> 13, health |-> 85, max_health |-> 85]
      [] bt = "robotic"  -> [width |-> 58, height |-> 145, speed2 |-> 10, health |-> 110, max_health |-> 110]

\* Player.__init__ (duelist_game.py), x in half pixels
MonolithicPlayer(x2, y, bt) ==
    LET b == SetBodyParameters(bt)
    IN  [body_type |-> bt, x |-> x2, y |-> y,
         width |-> b.width, height |-> b.height, speed2 |-> b.speed2,
         health |-> b.health, max_health |-> b.max_health,
         moving_left |-> FALSE, moving_right |-> FALSE,
         attacking |-> FALSE, blocking |-> FALSE, block_direction |-> "left",
         attack_cooldown |-> 0, block_cooldown |-> 0, attack_animation |-> 0,
         already_hit_in_current_attack |-> FALSE, attacking_with_right |-> TRUE]

\* a faulty variant of the monolithic update that moves and counts the cooldowns down, but leaves y
\* where the constructor put it and ends neither a swing nor a block
MonolithicUpdateKeepingY(m, gy, sw, opp) ==
    LET x1 == IF m.moving_left /\ m.x > 0 THEN m.x - m.speed2 ELSE m.x
        x2 == IF m.moving_right /\ x1 < 2 * (sw - m.width) THEN x1 + m.speed2 ELSE x1
    IN  [m EXCEPT !.x = x2,
                  !.attack_cooldown = IF @ > 0 THEN @ - 1 ELSE @,
                  !.block_cooldown = IF @ > 0 THEN @ - 1 ELSE @]

\* Player.attack (duelist_game.py)
monolithic_attack(m, opponent_x) ==
    IF m.attack_cooldown <= 0
    THEN \* determine_attack_hand, then the swing
         LET with_right == ~(opponent_x < m.x + 2 * (m.width \div 2))
         IN  [m EXCEPT
            !.attacking_with_right = with_right,
            !.block_direction = IF with_right THEN "left" ELSE "right",
            !.attacking = TRUE,
            !.attack_animation = 15,
            !.attack_cooldown = 30,
            !.already_hit_in_current_attack = FALSE]
    ELSE m

\* Player.block (duelist_game.py)
monolithic_block(m, opponent_x) ==
    IF m.block_cooldown <= 0
    THEN [m EXCEPT
            !.block_direction = IF opponent_x < m.x + 2 * (m.width \div 2) THEN "left" ELSE "right",
            !.blocking = TRUE,
            !.block_cooldown = 40]
    ELSE m

\* Player.update (duelist_game.py), statement by statement
monolithic_update(m, gy, sw, opp) ==
    LET x1 == IF m.moving_left /\ m.x > 0 THEN m.x - m.speed2 ELSE m.x
        x2 == IF m.moving_right /\ x1 < 2 * (sw - m.width) THEN x1 + m.speed2 ELSE x1
        m1 == [m EXCEPT !.x = x2, !.y = gy - m.height]
        m2 == IF m1.attacking /\ m1.attack_animation > 0
              THEN IF m1.attack_animation - 1 <= 0
                   THEN [m1 EXCEPT !.attack_animation = @ - 1, !.attacking = FALSE,
                                   !.already_hit_in_current_attack = FALSE]
                   ELSE [m1 EXCEPT !.attack_animation = @ - 1]
              ELSE m1
        m3 == IF m2.attack_cooldown > 0 THEN [m2 EXCEPT !.attack_cooldown = @ - 1] ELSE m2
        m4 == IF m3.block_cooldown > 0
              THEN IF m3.block_cooldown - 1 <= 0
                   THEN [m3 EXCEPT !.block_cooldown = @ - 1, !.blocking = FALSE]
                   ELSE [m3 EXCEPT !.block_cooldown = @ - 1]
              ELSE m3
    IN  IF opp # <<>> /\ m4.blocking
        THEN [m4 EXCEPT !.block_direction =
                            IF opp[1] < m4.x + 2 * (m4.width \div 2) THEN "left" ELSE "right"]
        ELSE m4

\* one call on the Player of player.py (its y is set by update)
ModularCall(t, call) ==
    CASE call.name = "move_left" -> [t EXCEPT !.player = move_left(@)]
      [] call.name = "move_right" -> [t EXCEPT !.player = move_right(@)]
      [] call.name = "stop_moving" -> [t EXCEPT !.player = stop_moving(@)]
      [] call.name = "attack" -> [t EXCEPT !.player = attack(@, call.opponent[1])]
      [] call.name = "block" -> [t EXCEPT !.player = block(@, call.opponent[1])]
      [] call.name = "update" -> [player |-> update(t.player, screen_width, call.opponent),
                                  y |-> Y(t.player)]
      [] call.name = "take_damage" -> [t EXCEPT !.player = take_damage(@, 10)]

\* the same call on the Player of duelist_game.py (move_left, move_right, stop_moving and
\* take_damage are written out here)
MonolithicCall(m, call) ==
    CASE call.name = "move_left" -> [m EXCEPT !.moving_left = TRUE, !.moving_right = FALSE]
      [] call.name = "move_right" -> [m EXCEPT !.moving_right = TRUE, !.moving_left = FALSE]
      [] call.name = "stop_moving" -> [m EXCEPT !.moving_left = FALSE, !.moving_right = FALSE]
      [] call.name = "attack" -> monolithic_attack(m, call.opponent[1])
      [] call.name = "block" -> monolithic_block(m, call.opponent[1])
      [] call.name = "update" -> monolithic_update(m, ground_y, screen_width, call.opponent)
      [] call.name = "take_damage" ->
            IF ~m.blocking THEN [m EXCEPT !.health = Max(0, m.health - 10)] ELSE m

\* both Players after n more update() calls (each step is evaluated before the next is taken)
RECURSIVE TwinsUpdated(_, _)
TwinsUpdated(pair, n) ==
    IF n = 0 THEN pair
    ELSE LET call == [name |-> "update", opponent |-> <<>>]
             next == <<ModularCall(pair[1], call), MonolithicCall(pair[2], call)>>
         IN  IF next[2].block_cooldown >= 0 THEN TwinsUpdated(next, n - 1) ELSE next

\* Both Players constructed at the same x (the two start positions of a match and both arena
\* edges) and taken through the same past: nothing, a swing about to end, or a block about to end.
InitTwins ==
    /\ impl = "modular"
    /\ state = API
    /\ \E bt \in BodyTypes,
          start_x \in {1, START_X1, StartX2, screen_width - 40},
          past \in {<<"none", 0>>, <<"attack", ATTACK_ANIMATION - 2>>,
                    <<"block", BLOCK_COOLDOWN - 2>>} :
          LET new == <<[player |-> NewPlayer(2 * start_x, bt), y |-> ground_y - 100],
                       MonolithicPlayer(2 * start_x, ground_y - 100, bt)>>
              first == [name |-> past[1], opponent |-> <<2 * StartX2>>]
              begun == IF past[1] = "none" THEN new
                       ELSE <<ModularCall(new[1], first), MonolithicCall(new[2], first)>>
              pair == TwinsUpdated(begun, past[2])
          IN  /\ player1 = pair[1]
              /\ player2 = pair[2]
    /\ bot = NoFighter
    /\ battle_finished = FALSE
    /\ winner = None
    /\ round_time = 0
    /\ crashed = FALSE
    /\ held = {}
    /\ keys_used = 0
    /\ events = <<NoEvent, NoEvent>>
    /\ swing = <<NewSwing, NewSwing>>
    /\ since_attack = 0
    /\ last_call = [name |-> None, calls |-> 0]
    /\ hits_landed = 0
    /\ menu = NewMenu

\* the same call made on both Players
TwinCall(call) ==
    /\ state = API
    /\ last_call.calls < MaxTwinCalls
    /\ player1' = ModularCall(player1, call)
    /\ player2' = MonolithicCall(player2, call)
    /\ last_call' = [name |-> call.name, calls |-> last_call.calls + 1]
    /\ UNCHANGED <<impl, state, bot, battle_finished, winner, round_time, crashed, held,
                   keys_used, events, swing, since_attack, hits_landed, menu>>

\* the calls: the commands, update with and without an opponent's x, and take_damage(10)
NextTwins ==
    \E call \in {[name |-> n, opponent |-> <<>>] :
                    n \in {"move_left", "move_right", "stop_moving", "update", "take_damage"}}
                \cup {[name |-> n, opponent |-> <<ox>>] :
                         n \in {"attack", "block", "update"}, ox \in OpponentXs} :
        TwinCall(call)

SpecTwins == InitTwins /\ [][NextTwins]_vars

(* C34: for the same archetype, start position and sequence of move_left, move_right,    *)
(* stop_moving, attack, block, update and take_damage(10) calls, the Player of           *)
(* duelist_game.py and the Player of player.py agree after every call on x, y, health,   *)
(* the movement flags, attacking, blocking, block_direction, attacking_with_right,       *)
(* attack_cooldown, block_cooldown, attack_animation and already_hit_in_current_attack.  *)
C34_TwinsAgree ==
    /\ player1.player.x = player2.x
    /\ player1.y = player2.y
    /\ player1.player.health = player2.health
    /\ player1.player.moving_left = player2.moving_left
    /\ player1.player.moving_right = player2.moving_right
    /\ player1.player.attacking = player2.attacking
    /\ player1.player.blocking = player2.blocking
    /\ player1.player.block_direction = player2.block_direction
    /\ player1.player.attacking_with_right = player2.attacking_with_right
    /\ player1.player.attack_cooldown = player2.attack_cooldown
    /\ player1.player.block_cooldown = player2.block_cooldown
    /\ player1.player.attack_animation = player2.attack_animation
    /\ player1.player.already_hit_in_current_attack = player2.already_hit_in_current_attack

\* both Players have walked, lost health to take_damage(10) and been updated to a new y
C34_TwinsHurtAndMoved ==
    /\ last_call.calls = MaxTwinCalls
    /\ player2.health = player2.max_health - 10
    /\ player2.y = ground_y - player2.height
    /\ player2.x # 2 * START_X1
    /\ player2.moving_right
    /\ player2.body_type = "sumo"

=============================================================================
